---- MODULE Spec2Model ----
(***************************************************************************)
(* Paw: a runtime schema validation engine (src/src/paw.ts, last revision  *)
(* of the file, lines 1110-2640; issues in src/unnamed/part_007; results   *)
(* in src/src/result.ts lines 41-93).                                      *)
(*                                                                         *)
(* The state is the set of schema objects the caller has built (heap: a    *)
(* schema's identity is its index, a child schema is held by reference)    *)
(* and the outcome of the last parse/safeParse call (last).  Builder       *)
(* methods mutate the receiver in the heap or allocate a wrapper; parse    *)
(* calls leave the heap alone and record what they returned together with  *)
(* the order in which the pipeline stages and user functions were invoked. *)
(***************************************************************************)
EXTENDS Integers, Sequences, FiniteSets, TLC

VARIABLES heap, last

vars == <<heap, last>>

(***************************************************************************)
(* Bounds                                                                  *)
(***************************************************************************)
\* total number of builder calls reflected in a heap
MaxConfig == 3
\* longest input array enumerated for an array schema of the nested model
MaxArrayLen == 2
\* number of union() calls reflected in a heap of the union model
MaxUnions == 1

\* builder calls made on the schemas of the builder model
MaxBuilds == 3

(***************************************************************************)
(* JavaScript values.  A value is tagged with its runtime type t and holds *)
(* its payload in the field of that type: n a number, counted in halves so *)
(* that non-integers exist (Half(3) is 1.5), s a string, b a boolean, a    *)
(* the elements of an array, o the ordered <<key, value>> entries of an    *)
(* object.  ref tells the objects apart by who allocated them: a value the *)
(* caller hands in is the caller's, an object a parser creates is new, so  *)
(* that a result which is the caller's object differs from a copy of it.   *)
(***************************************************************************)
Undefined ==
  [t |-> "undefined", n |-> 0, s |-> "", b |-> FALSE, a |-> <<>>, o |-> <<>>,
   ref |-> "caller"]

Null == [Undefined EXCEPT !.t = "null"]

Half(n) == [Undefined EXCEPT !.t = "number", !.n = n]

Num(n) == Half(2 * n)

Str(s) == [Undefined EXCEPT !.t = "string", !.s = s]

Bool(b) == [Undefined EXCEPT !.t = "boolean", !.b = b]

Arr(s) == [Undefined EXCEPT !.t = "array", !.a = s]

Obj(s) == [Undefined EXCEPT !.t = "object", !.o = s]

\* an object allocated during a parse: const strict = {}
New(x) == [x EXCEPT !.ref = "parser"]

\* the typeof operator
TypeOf(x) == IF x.t \in {"null", "array", "object"} THEN "object" ELSE x.t

\* x === null || x === undefined
IsNullish(x) == x.t \in {"null", "undefined"}

\* Number.isInteger
IsInteger(x) == x.t = "number" /\ x.n % 2 = 0

\* String(n) for a number
NumStr(n) == IF n % 2 = 0 THEN ToString(n \div 2) ELSE ToString(n \div 2) \o ".5"

\* template-literal / String() conversion of a value
JsString(x) ==
  CASE x.t = "undefined" -> "undefined"
    [] x.t = "null" -> "null"
    [] x.t = "number" -> NumStr(x.n)
    [] x.t = "string" -> x.s
    [] x.t = "boolean" -> (IF x.b THEN "true" ELSE "false")
    [] x.t = "array" -> "[array]"
    [] OTHER -> "[object Object]"

\* own enumerable keys of an object-like value, in order
RECURSIVE KeysOf(_)
KeysOf(entries) ==
  IF entries = <<>> THEN <<>> ELSE <<Head(entries)[1]>> \o KeysOf(Tail(entries))

OwnKeys(x) ==
  CASE x.t = "object" -> KeysOf(x.o)
    [] x.t = "array" -> [i \in 1..Len(x.a) |-> ToString(i - 1)]
    [] OTHER -> <<>>

\* property read obj[k] with a declared field name k (never an index)
RECURSIVE Lookup(_, _)
Lookup(entries, k) ==
  IF entries = <<>> THEN Undefined
  ELSE IF Head(entries)[1] = k THEN Head(entries)[2]
  ELSE Lookup(Tail(entries), k)

Get(x, k) == IF x.t = "object" THEN Lookup(x.o, k) ELSE Undefined

(***************************************************************************)
(* Results and issues                                                      *)
(***************************************************************************)
PawOk(value) == [ok |-> TRUE, value |-> value]

PawError(error) == [ok |-> FALSE, error |-> error]

\* an optional message or path that was not given
NoMsg == "<undefined>"

NoPath == <<Undefined>>

NoSrc == "<none>"

\* a ?? b on optional messages
Coalesce(a, b) == IF a # NoMsg THEN a ELSE b

PawIssueBase(kind, message, path) ==
  [kind |-> kind, message |-> message, path |-> path, src |-> NoSrc, issues |-> <<>>]

PawRequiredIssue(message) == PawIssueBase("required", message, NoPath)

PawStringIssue(message) == PawIssueBase("string", message, NoPath)

PawNumberIssue(message) == PawIssueBase("number", message, NoPath)

PawBooleanIssue(message) == PawIssueBase("boolean", message, NoPath)

PawArrayTypeIssue(message) == PawIssueBase("array-type", message, NoPath)

PawArraySchemaIssue(message, issues) ==
  [PawIssueBase("array-schema", message, NoPath) EXCEPT !.issues = issues]

PawObjectTypeIssue(message) == PawIssueBase("object-type", message, NoPath)

PawObjectSchemaIssue(message, issues, path) ==
  [PawIssueBase("object-schema", message, path) EXCEPT !.issues = issues]

PawLiteralIssue(message) == PawIssueBase("literal", message, NoPath)

PawUnionIssue(message) == PawIssueBase("union", message, NoPath)

PawCheckIssue(message, src, path) ==
  [PawIssueBase("check", message, path) EXCEPT !.src = src]

PawRefineIssue(message, src, path) ==
  [PawIssueBase("refine", message, path) EXCEPT !.src = src]

PawTransformIssue(message, src, path) ==
  [PawIssueBase("transform", message, path) EXCEPT !.src = src]

\* placeholder of an outcome record where no issue was produced
NoIssue == PawIssueBase("<none>", NoMsg, NoPath)

(***************************************************************************)
(* User functions.  refine, check and transform take caller code; the      *)
(* model draws it from a catalogue of named pure functions of the context. *)
(***************************************************************************)
PawRefineContext(input, src) == [input |-> input, src |-> src]

PawCheckContext(input, output, src) == [input |-> input, output |-> output, src |-> src]

PawTransformContext(output, src) == [output |-> output, src |-> src]

RefineFns == {"double", "default", "rejectAt"}

CheckFns == {"truthy", "even", "failAt"}

TransformFns == {"toString", "toNumber"}

\* the path a user function hands to ctx.error
UserPath == <<Str("user")>>

PawRefineFn(fn, ctx) ==
  CASE fn = "double" ->
         IF ctx.input.t = "number" THEN PawOk(Half(2 * ctx.input.n))
         ELSE PawError(PawRefineIssue("not a number", ctx.src, NoPath))
    [] fn = "default" ->
         IF IsNullish(ctx.input) THEN PawOk(Str("1")) ELSE PawOk(ctx.input)
    [] OTHER ->
         PawError(PawRefineIssue("rejected", ctx.src, UserPath))

Truthy(x) ==
  CASE x.t = "number" -> x.n # 0
    [] x.t = "string" -> x.s # ""
    [] x.t = "boolean" -> x.b
    [] OTHER -> ~IsNullish(x)

PawCheckFn(fn, ctx) ==
  CASE fn = "truthy" ->
         IF Truthy(ctx.output) THEN PawOk(Undefined)
         ELSE PawError(PawCheckIssue("falsy", ctx.src, NoPath))
    [] fn = "even" ->
         IF ctx.output.t = "number" /\ ctx.output.n % 4 = 0 THEN PawOk(Undefined)
         ELSE PawError(PawCheckIssue("not even", ctx.src, NoPath))
    [] OTHER ->
         PawError(PawCheckIssue("failed", ctx.src, UserPath))

\* Number(s) on the strings that parse; anything else is NaN
ParsableStrings == {"0", "1", "2"}

StrToNum(s) == IF s = "0" THEN Num(0) ELSE IF s = "1" THEN Num(1) ELSE Num(2)

PawTransformFn(fn, ctx) ==
  CASE fn = "toString" -> PawOk(Str(JsString(ctx.output)))
    [] OTHER ->
         IF ctx.output.t = "number" THEN PawOk(ctx.output)
         ELSE IF ctx.output.t = "string" /\ ctx.output.s \in ParsableStrings
              THEN PawOk(StrToNum(ctx.output.s))
         ELSE PawError(PawTransformIssue("nan", ctx.src, NoPath))

(***************************************************************************)
(* Schemas.  A schema object is a record of the fields of its parser class;*)
(* a child schema is the heap index of the child.                          *)
(***************************************************************************)
\* a constraint that was not configured (the field is undefined)
NoCfg == [set |-> FALSE, value |-> 0, message |-> NoMsg]

Cfg(value, message) == [set |-> TRUE, value |-> value, message |-> message]

PawStringParser(message) ==
  [kind |-> "string", message |-> message, reqmessage |-> NoMsg,
   refines |-> <<>>, checks |-> <<>>, mincfg |-> NoCfg, maxcfg |-> NoCfg]

PawNumberParser(message) ==
  [kind |-> "number", message |-> message, reqmessage |-> NoMsg,
   intcfg |-> [value |-> FALSE, message |-> NoMsg],
   mincfg |-> NoCfg, maxcfg |-> NoCfg, refines |-> <<>>, checks |-> <<>>]

PawBooleanParser(message) ==
  [kind |-> "boolean", message |-> message, reqmessage |-> NoMsg,
   refines |-> <<>>, checks |-> <<>>]

PawUnknownParser == [kind |-> "unknown", refines |-> <<>>, checks |-> <<>>]

PawAnyParser == [kind |-> "any", refines |-> <<>>, checks |-> <<>>]

PawArrayParser(unit, message) ==
  [kind |-> "array", unit |-> unit, message |-> message, isImmediate |-> FALSE,
   reqmessage |-> NoMsg, maxcfg |-> NoCfg, mincfg |-> NoCfg,
   refines |-> <<>>, checks |-> <<>>]

\* fields: the declared fields in declaration order, <<name, child>> each
PawObjectParser(fields, message) ==
  [kind |-> "object", fields |-> fields, message |-> message, isImmediate |-> FALSE,
   reqmessage |-> NoMsg, refines |-> <<>>, checks |-> <<>>,
   isStrict |-> FALSE, isPathed |-> FALSE]

PawLiteralParser(values, message) ==
  [kind |-> "literal", values |-> values, message |-> message, reqmessage |-> NoMsg,
   refines |-> <<>>, checks |-> <<>>]

PawUnionParser(schemas, message) ==
  [kind |-> "union", schemas |-> schemas, message |-> message, reqmessage |-> NoMsg,
   refines |-> <<>>, checks |-> <<>>]

\* src ?? schema.kind is resolved by the caller (Transform below)
PawTransformParser(fn, schema, src) ==
  [kind |-> "transform", fn |-> fn, schema |-> schema, src |-> src]

PawOptionalParser(parser) == [kind |-> "optional", parser |-> parser, refines |-> <<>>]

PawNullableParser(parser) == [kind |-> "nullable", parser |-> parser, refines |-> <<>>]

(***************************************************************************)
(* Parsing.  Every safeParse returns its PawResult (res) and the list of   *)
(* stage events it caused, in order (trace):                               *)
(*   refine    user refine function k of schema id called on arg           *)
(*   parse     structural validation of schema id entered on arg           *)
(*   item      schema id handed arg (element k / field k / alternative k / *)
(*             wrapped value) to a child schema's safeParse                *)
(*   check     user check function k of schema id called on output arg     *)
(*   transform transform function of schema id called on arg               *)
(* ret is what that step returned (a PawResult), ok whether it succeeded.  *)
(***************************************************************************)
Ev(ev, id, k, arg, ret) ==
  [ev |-> ev, id |-> id, k |-> k, arg |-> arg, ok |-> ret.ok, ret |-> ret]

Run(res, trace) == [res |-> res, trace |-> trace]

\* a refine loop that hands the raw input to every refine function instead of
\* the previous one's value: the chaining C9 rules out
RECURSIVE RefineEachOnRaw(_, _, _, _, _)
RefineEachOnRaw(fns, src, id, input, i) ==
  IF i > Len(fns) THEN Run(PawOk(input), <<>>)
  ELSE LET result == PawRefineFn(fns[i], PawRefineContext(input, src))
           ev == Ev("refine", id, i, input, result)
       IN IF ~result.ok THEN Run(result, <<ev>>)
          ELSE LET rest == RefineEachOnRaw(fns, src, id, input, i + 1)
               IN Run(IF rest.res.ok /\ i = Len(fns) THEN result ELSE rest.res,
                      <<ev>> \o rest.trace)

\* for (const fn of refines) { result = fn(ctx(input)); if (!ok) return; input = value }
RECURSIVE RefineFrom(_, _, _, _, _)
RefineFrom(fns, src, id, input, i) ==
  IF i > Len(fns) THEN Run(PawOk(input), <<>>)
  ELSE LET result == PawRefineFn(fns[i], PawRefineContext(input, src))
           ev == Ev("refine", id, i, input, result)
       IN IF ~result.ok THEN Run(result, <<ev>>)
          ELSE LET rest == RefineFrom(fns, src, id, result.value, i + 1)
               IN Run(rest.res, <<ev>> \o rest.trace)

RunRefinements(s, id, input) == RefineFrom(s.refines, s.kind, id, input, 1)

\* a check loop that keeps calling the later checks after one has failed and
\* reports the first failure: the short circuit C10 rules out
RECURSIVE CheckEvery(_, _, _, _, _, _)
CheckEvery(fns, src, id, input, output, i) ==
  IF i > Len(fns) THEN Run(PawOk(Undefined), <<>>)
  ELSE LET result == PawCheckFn(fns[i], PawCheckContext(input, output, src))
           ev == Ev("check", id, i, output, result)
           rest == CheckEvery(fns, src, id, input, output, i + 1)
       IN Run(IF ~result.ok THEN result ELSE rest.res, <<ev>> \o rest.trace)

\* for (const checkfn of checks) { result = checkfn(ctx(input, output)); if (!ok) return }
RECURSIVE CheckFrom(_, _, _, _, _, _)
CheckFrom(fns, src, id, input, output, i) ==
  IF i > Len(fns) THEN Run(PawOk(Undefined), <<>>)
  ELSE LET result == PawCheckFn(fns[i], PawCheckContext(input, output, src))
           ev == Ev("check", id, i, output, result)
       IN IF ~result.ok THEN Run(result, <<ev>>)
          ELSE LET rest == CheckFrom(fns, src, id, input, output, i + 1)
               IN Run(rest.res, <<ev>> \o rest.trace)

RunChecks(s, id, input, output) == CheckFrom(s.checks, s.kind, id, input, output, 1)

\* the structural validation of a string, after the refines
StringValidate(s, input) ==
  IF IsNullish(input)
  THEN PawError(PawRequiredIssue(Coalesce(s.reqmessage, Coalesce(s.message,
         "Expected string but received " \o JsString(input)))))
  ELSE IF TypeOf(input) # "string"
  THEN PawError(PawStringIssue(Coalesce(s.message,
         "Expected string but received " \o TypeOf(input))))
  ELSE IF s.mincfg.set /\ Len(input.s) < s.mincfg.value
  THEN PawError(PawStringIssue(Coalesce(s.mincfg.message,
         "String length cannot be less than " \o ToString(s.mincfg.value))))
  ELSE IF s.maxcfg.set /\ Len(input.s) > s.maxcfg.value
  THEN PawError(PawStringIssue(Coalesce(s.maxcfg.message,
         "String length cannot be more than " \o ToString(s.maxcfg.value))))
  ELSE PawOk(input)

\* the structural validation of a number; bounds are whole numbers
NumberValidate(s, input) ==
  IF IsNullish(input)
  THEN PawError(PawRequiredIssue(Coalesce(s.reqmessage, Coalesce(s.message,
         "Expected a number but received " \o JsString(input)))))
  ELSE IF TypeOf(input) # "number"
  THEN PawError(PawNumberIssue(Coalesce(s.message,
         "Expected a number but received " \o TypeOf(input))))
  ELSE IF s.intcfg.value /\ ~IsInteger(input)
  THEN PawError(PawNumberIssue(Coalesce(s.intcfg.message,
         "Expected number to be a valid integer")))
  ELSE IF s.mincfg.set /\ input.n < 2 * s.mincfg.value
  THEN PawError(PawNumberIssue(Coalesce(s.mincfg.message,
         "Expected number to be less than or equal to " \o ToString(s.mincfg.value))))
  ELSE IF s.maxcfg.set /\ input.n > 2 * s.maxcfg.value
  THEN PawError(PawNumberIssue(Coalesce(s.maxcfg.message,
         "Expected number to be bigger than or equal to " \o ToString(s.maxcfg.value))))
  ELSE PawOk(input)

BooleanValidate(s, input) ==
  IF IsNullish(input)
  THEN PawError(PawRequiredIssue(Coalesce(s.reqmessage, Coalesce(s.message,
         "Expected boolean but received " \o JsString(input)))))
  ELSE IF TypeOf(input) # "boolean"
  THEN PawError(PawBooleanIssue(Coalesce(s.message, "Value is not a boolean")))
  ELSE PawOk(input)

\* values.join(", ")
RECURSIVE Join(_)
Join(values) ==
  IF values = <<>> THEN ""
  ELSE IF Len(values) = 1 THEN JsString(values[1])
  ELSE JsString(values[1]) \o ", " \o Join(Tail(values))

\* values.indexOf(input) >= 0, by strict equality
IndexOf(values, input) ==
  IF \E i \in 1..Len(values) : values[i] = input
  THEN (CHOOSE i \in 1..Len(values) :
          values[i] = input /\ \A j \in 1..(i - 1) : values[j] # input) - 1
  ELSE -1

LiteralValidate(s, input) ==
  IF IsNullish(input)
  THEN PawError(PawRequiredIssue(Coalesce(s.reqmessage,
         "Expected literal but received " \o JsString(input))))
  ELSE IF IndexOf(s.values, input) < 0
  THEN PawError(PawLiteralIssue(Coalesce(s.message,
         "Expected one of the following values: " \o Join(s.values))))
  ELSE PawOk(input)

\* the structural validation of a scalar class; unknown() and any() have none
Validate(s, input) ==
  CASE s.kind = "string" -> StringValidate(s, input)
    [] s.kind = "number" -> NumberValidate(s, input)
    [] s.kind = "boolean" -> BooleanValidate(s, input)
    [] s.kind = "literal" -> LiteralValidate(s, input)
    [] OTHER -> PawOk(input)

\* a run that follows the events in before
After(before, run) == Run(run.res, before \o run.trace)

\* the end of every safeParse: the checks on the output, then Ok(output)
Checked(output, checked) ==
  Run(IF checked.res.ok THEN PawOk(output) ELSE checked.res, checked.trace)

\* the structural stage of a scalar class on the refined input, with the
\* checks run ahead of the validation: the stage order C1 rules out
ScalarParseChecksFirst(s, id, input, valid) ==
  LET checked == RunChecks(s, id, input, input)
      pev == IF s.kind \in {"unknown", "any"} THEN <<>>
             ELSE <<Ev("parse", id, 0, input, valid)>>
  IN IF ~checked.res.ok THEN checked ELSE Run(valid, checked.trace \o pev)

\* a structural stage that answers with the string form of a valid input:
\* the coercion C23 rules out
ScalarParseCoerced(s, id, input, valid) ==
  LET pev == IF s.kind \in {"unknown", "any"} THEN <<>>
             ELSE <<Ev("parse", id, 0, input, valid)>>
  IN IF ~valid.ok THEN Run(valid, pev)
     ELSE After(pev, Checked(New(Str(JsString(input))), RunChecks(s, id, input, input)))

\* the structural stage of a scalar class on the refined input: valid is the
\* outcome of its validation; then the checks, then Ok(input)
ScalarParse(s, id, input, valid) ==
  LET pev == IF s.kind \in {"unknown", "any"} THEN <<>>
             ELSE <<Ev("parse", id, 0, input, valid)>>
  IN IF ~valid.ok THEN Run(valid, pev)
     ELSE After(pev, Checked(input, RunChecks(s, id, input, input)))

\* the part of a safeParse that follows the refines
Refined(refined, run) == IF ~refined.res.ok THEN refined ELSE After(refined.trace, run)

\* the safeParse of the scalar classes: refines, structural validation,
\* checks, Ok(input)
ScalarSafeParse(s, id, val) ==
  LET refined == RunRefinements(s, id, val)
  IN Refined(refined,
             ScalarParse(s, id, refined.res.value, Validate(s, refined.res.value)))

(***************************************************************************)
(* Nestable schemas, wrappers and the dispatch on the schema class         *)
(***************************************************************************)
RECURSIVE SafeParse(_, _, _)
RECURSIVE ArrayImmediateFrom(_, _, _, _)
RECURSIVE ArrayRetainedFrom(_, _, _, _)
RECURSIVE ObjectImmediateFrom(_, _, _, _)
RECURSIVE ObjectRetainedFrom(_, _, _, _)
RECURSIVE UnionFrom(_, _, _, _)

\* a parseArray that tests the minimum length before the maximum: the order
\* C19 rules out
ParseArrayMinFirst(s, input) ==
  IF IsNullish(input)
  THEN PawError(PawRequiredIssue(Coalesce(s.reqmessage, Coalesce(s.message,
         "Expected array but received " \o JsString(input)))))
  ELSE IF input.t # "array"
  THEN PawError(PawArrayTypeIssue(Coalesce(s.message,
         "Expected array but received " \o TypeOf(input))))
  ELSE IF s.mincfg.set /\ Len(input.a) < s.mincfg.value
  THEN PawError(PawArrayTypeIssue(Coalesce(s.mincfg.message,
         "Array cannot have less than " \o ToString(s.mincfg.value) \o " items")))
  ELSE IF s.maxcfg.set /\ Len(input.a) > s.maxcfg.value
  THEN PawError(PawArrayTypeIssue(Coalesce(s.maxcfg.message,
         "Array cannot have more than " \o ToString(s.maxcfg.value) \o " items")))
  ELSE PawOk(input)

\* Required, then Array.isArray, then max, then min
ParseArray(s, input) ==
  IF IsNullish(input)
  THEN PawError(PawRequiredIssue(Coalesce(s.reqmessage, Coalesce(s.message,
         "Expected array but received " \o JsString(input)))))
  ELSE IF input.t # "array"
  THEN PawError(PawArrayTypeIssue(Coalesce(s.message,
         "Expected array but received " \o TypeOf(input))))
  ELSE IF s.maxcfg.set /\ Len(input.a) > s.maxcfg.value
  THEN PawError(PawArrayTypeIssue(Coalesce(s.maxcfg.message,
         "Array cannot have more than " \o ToString(s.maxcfg.value) \o " items")))
  ELSE IF s.mincfg.set /\ Len(input.a) < s.mincfg.value
  THEN PawError(PawArrayTypeIssue(Coalesce(s.mincfg.message,
         "Array cannot have less than " \o ToString(s.mincfg.value) \o " items")))
  ELSE PawOk(input)

\* one turn of an element or field loop: the child's safeParse of v, as the
\* event of its call followed by the child's own events
Item(id, k, v, parsed) == Run(parsed.res, <<Ev("item", id, k, v, parsed.res)>> \o parsed.trace)

\* an element loop that parses the later elements after one has failed and
\* reports the first failure: the short circuit C5 rules out
ArrayImmediateAll(h, id, elems, i) ==
  LET loop == ArrayRetainedFrom(h, id, elems, i)
  IN Run(IF Len(loop.issues) = 0 THEN PawOk(Undefined)
         ELSE PawError(PawArraySchemaIssue(
                Coalesce(h[id].message,
                         "Item at " \o ToString(loop.issues[1].idx)
                                    \o " failed schema validation"),
                <<loop.issues[1]>>)),
         loop.trace)

\* the element loop of safeParseImmediate, from element i (1-based; idx is i - 1):
\* the first failing element ends the loop with an array-schema issue
ArrayImmediateFrom(h, id, elems, i) ==
  IF i > Len(elems) THEN Run(PawOk(Undefined), <<>>)
  ELSE LET parsed == Item(id, i - 1, elems[i], SafeParse(h, h[id].unit, elems[i]))
       IN IF ~parsed.res.ok
          THEN Run(PawError(PawArraySchemaIssue(
                     Coalesce(h[id].message,
                              "Item at " \o ToString(i - 1) \o " failed schema validation"),
                     <<[idx |-> i - 1, issue |-> parsed.res.error]>>)),
                   parsed.trace)
          ELSE After(parsed.trace, ArrayImmediateFrom(h, id, elems, i + 1))

\* an element loop that keeps the first failure only: the completeness C4
\* rules out
ArrayRetainedFirstOnly(h, id, elems, i) ==
  LET loop == ArrayImmediateFrom(h, id, elems, i)
  IN [issues |-> IF loop.res.ok THEN <<>> ELSE loop.res.error.issues,
      trace |-> loop.trace]

\* the element loop of safeParseRetained: every element is parsed, the
\* failures are pushed in index order
ArrayRetainedFrom(h, id, elems, i) ==
  IF i > Len(elems) THEN [issues |-> <<>>, trace |-> <<>>]
  ELSE LET parsed == Item(id, i - 1, elems[i], SafeParse(h, h[id].unit, elems[i]))
           rest == ArrayRetainedFrom(h, id, elems, i + 1)
       IN [issues |-> (IF parsed.res.ok THEN <<>>
                       ELSE <<[idx |-> i - 1, issue |-> parsed.res.error]>>) \o rest.issues,
           trace |-> parsed.trace \o rest.trace]

\* a retained loop that reports an ArraySchema issue whether or not an
\* element failed: the empty child list C22 rules out
ArrayRetainedAlways(s, loop) ==
  Run(PawError(PawArraySchemaIssue(
        Coalesce(s.message, "Array failed schema validation"), loop.issues)),
      loop.trace)

\* the loop of safeParseRetained and the issue it ends with if any element failed
ArrayRetainedLoop(s, loop) ==
  Run(IF Len(loop.issues) > 0
      THEN PawError(PawArraySchemaIssue(
             Coalesce(s.message, "Array failed schema validation"), loop.issues))
      ELSE PawOk(Undefined),
      loop.trace)

\* the structural stage of an array on the refined input: arr is the outcome
\* of parseArray, loop the run of the element loop; the output is the input
\* array itself, then the checks
ArrayParse(s, id, input, arr, loop) ==
  IF ~arr.ok THEN Run(arr, <<Ev("parse", id, 0, input, arr)>>)
  ELSE IF ~loop.res.ok
  THEN Run(loop.res, <<Ev("parse", id, 0, input, loop.res)>> \o loop.trace)
  ELSE After(<<Ev("parse", id, 0, input, PawOk(input))>> \o loop.trace,
             Checked(input, RunChecks(s, id, input, input)))

ArraySafeParseImmediate(h, id, val) ==
  LET refined == RunRefinements(h[id], id, val)
  IN Refined(refined,
             ArrayParse(h[id], id, refined.res.value,
                        ParseArray(h[id], refined.res.value),
                        ArrayImmediateFrom(h, id, refined.res.value.a, 1)))

ArraySafeParseRetained(h, id, val) ==
  LET refined == RunRefinements(h[id], id, val)
  IN Refined(refined,
             ArrayParse(h[id], id, refined.res.value,
                        ParseArray(h[id], refined.res.value),
                        ArrayRetainedLoop(h[id],
                          ArrayRetainedFrom(h, id, refined.res.value.a, 1))))

\* an immediate mode that validates the first element only, accepting arrays
\* the retained mode rejects: the disagreement C29 rules out
ArraySafeParseFirstOnly(h, id, val) ==
  IF h[id].isImmediate
  THEN LET refined == RunRefinements(h[id], id, val)
       IN Refined(refined,
                  ArrayParse(h[id], id, refined.res.value,
                             ParseArray(h[id], refined.res.value),
                             ArrayImmediateFrom(h, id,
                               IF Len(refined.res.value.a) = 0 THEN <<>>
                               ELSE <<refined.res.value.a[1]>>, 1)))
  ELSE ArraySafeParseRetained(h, id, val)

ArraySafeParse(h, id, val) ==
  IF h[id].isImmediate THEN ArraySafeParseImmediate(h, id, val)
  ELSE ArraySafeParseRetained(h, id, val)

\* a parseObject whose Required issue prefers the constructor message to the
\* required() message: the precedence C18 rules out
ParseObjectMessageFirst(s, val) ==
  IF IsNullish(val)
  THEN PawError(PawRequiredIssue(Coalesce(s.message, Coalesce(s.reqmessage,
         "Expected object but received " \o JsString(val)))))
  ELSE IF TypeOf(val) # "object"
  THEN PawError(PawObjectTypeIssue(Coalesce(s.message,
         "Expected object but received " \o TypeOf(val))))
  ELSE PawOk(val)

\* Required, then typeof val !== "object" (an array is object-shaped)
ParseObject(s, val) ==
  IF IsNullish(val)
  THEN PawError(PawRequiredIssue(Coalesce(s.reqmessage, Coalesce(s.message,
         "Expected object but received " \o JsString(val)))))
  ELSE IF TypeOf(val) # "object"
  THEN PawError(PawObjectTypeIssue(Coalesce(s.message,
         "Expected object but received " \o TypeOf(val))))
  ELSE PawOk(val)

GetFieldIssueMessage(s, key) ==
  Coalesce(s.message, "Field '" \o key \o "' failed object schema validation")

\* the field loop of safeParseImmediate from declared field j; strict holds
\* the entries copied so far.  The strict branch passes [k] as the issue's
\* path, the non-strict branch passes none.
ObjectImmediateFrom(h, id, obj, j) ==
  IF j > Len(h[id].fields) THEN [res |-> PawOk(Undefined), trace |-> <<>>, strict |-> <<>>]
  ELSE LET k == h[id].fields[j][1]
           result == Item(id, j, Get(obj, k), SafeParse(h, h[id].fields[j][2], Get(obj, k)))
           rest == ObjectImmediateFrom(h, id, obj, j + 1)
       IN IF ~result.res.ok
          THEN [res |-> PawError(PawObjectSchemaIssue(
                          GetFieldIssueMessage(h[id], k),
                          <<[field |-> k, issue |-> result.res.error]>>,
                          IF h[id].isStrict THEN <<Str(k)>> ELSE NoPath)),
                trace |-> result.trace,
                strict |-> <<>>]
          ELSE [res |-> rest.res,
                trace |-> result.trace \o rest.trace,
                strict |-> <<<<k, result.res.value>>>> \o rest.strict]

\* the field loop of safeParseRetained: every declared field is parsed
ObjectRetainedFrom(h, id, obj, j) ==
  IF j > Len(h[id].fields) THEN [issues |-> <<>>, trace |-> <<>>, strict |-> <<>>]
  ELSE LET k == h[id].fields[j][1]
           result == Item(id, j, Get(obj, k), SafeParse(h, h[id].fields[j][2], Get(obj, k)))
           rest == ObjectRetainedFrom(h, id, obj, j + 1)
       IN [issues |-> (IF result.res.ok THEN <<>>
                       ELSE <<[field |-> k, issue |-> result.res.error]>>) \o rest.issues,
           trace |-> result.trace \o rest.trace,
           strict |-> (IF result.res.ok THEN <<<<k, result.res.value>>>> ELSE <<>>)
                      \o rest.strict]

\* the loop of safeParseRetained and the issue it ends with if any field failed
ObjectRetainedLoop(s, loop) ==
  [res |-> IF Len(loop.issues) > 0
           THEN PawError(PawObjectSchemaIssue(
                  Coalesce(s.message, "Object failed schema validation"),
                  loop.issues, NoPath))
           ELSE PawOk(Undefined),
   trace |-> loop.trace,
   strict |-> loop.strict]

\* an output that is the input whatever the strict flag: the projection C6
\* rules out
ObjectOutputAsInput(s, input, strict) == input

\* an output that is always a new object, a copy of the input's entries when
\* the schema is not strict: the copy C20 rules out
ObjectOutputCopy(s, input, strict) ==
  IF s.isStrict THEN New(Obj(strict)) ELSE New(Obj(input.o))

\* strict output is the new object of the declared fields, non-strict
\* output is the (refined) input itself
ObjectOutput(s, input, strict) == IF s.isStrict THEN New(Obj(strict)) ELSE input

\* the structural stage of an object on the refined input: obj is the
\* outcome of parseObject, loop the run of the field loop, output the
\* object the loop built; then the checks
ObjectParse(s, id, input, obj, loop, output) ==
  IF ~obj.ok THEN Run(obj, <<Ev("parse", id, 0, input, obj)>>)
  ELSE IF ~loop.res.ok
  THEN Run(loop.res, <<Ev("parse", id, 0, input, loop.res)>> \o loop.trace)
  ELSE After(<<Ev("parse", id, 0, input, PawOk(output))>> \o loop.trace,
             Checked(output, RunChecks(s, id, input, output)))

\* the structural stage with the field loop of the mode
ObjectParseWith(s, id, input, loop) ==
  ObjectParse(s, id, input, ParseObject(s, input), loop,
              ObjectOutput(s, input, loop.strict))

ObjectSafeParseImmediate(h, id, val) ==
  LET refined == RunRefinements(h[id], id, val)
  IN Refined(refined,
             ObjectParseWith(h[id], id, refined.res.value,
                             ObjectImmediateFrom(h, id, refined.res.value, 1)))

ObjectSafeParseRetained(h, id, val) ==
  LET refined == RunRefinements(h[id], id, val)
  IN Refined(refined,
             ObjectParseWith(h[id], id, refined.res.value,
                             ObjectRetainedLoop(h[id],
                               ObjectRetainedFrom(h, id, refined.res.value, 1))))

\* a post-pass that gives every issue below the root its own key only: the
\* concatenation C7 rules out
RECURSIVE MakeIssueWithOwnKey(_, _)
MakeIssueWithOwnKey(issue, path) ==
  LET children ==
        IF issue.kind = "object-schema"
        THEN [j \in 1..Len(issue.issues) |->
                [field |-> issue.issues[j].field,
                 issue |-> MakeIssueWithOwnKey(issue.issues[j].issue,
                                               <<Str(issue.issues[j].field)>>)]]
        ELSE IF issue.kind = "array-schema"
        THEN [j \in 1..Len(issue.issues) |->
                [idx |-> issue.issues[j].idx,
                 issue |-> MakeIssueWithOwnKey(issue.issues[j].issue,
                                               <<Num(issue.issues[j].idx)>>)]]
        ELSE issue.issues
  IN [issue EXCEPT !.issues = children, !.path = path]

\* a post-pass that answers with the issue alone under its path, its child
\* entries dropped: the rewriting C27 rules out
MakeIssueAlone(issue, path) == [issue EXCEPT !.issues = <<>>, !.path = path]

\* the post-pass of a pathed object: children first, then Object.assign(issue, {path})
RECURSIVE MakeIssueWithPath(_, _)
MakeIssueWithPath(issue, path) ==
  LET children ==
        IF issue.kind = "object-schema"
        THEN [j \in 1..Len(issue.issues) |->
                [field |-> issue.issues[j].field,
                 issue |-> MakeIssueWithPath(issue.issues[j].issue,
                                             path \o <<Str(issue.issues[j].field)>>)]]
        ELSE IF issue.kind = "array-schema"
        THEN [j \in 1..Len(issue.issues) |->
                [idx |-> issue.issues[j].idx,
                 issue |-> MakeIssueWithPath(issue.issues[j].issue,
                                             path \o <<Num(issue.issues[j].idx)>>)]]
        ELSE issue.issues
  IN [issue EXCEPT !.issues = children, !.path = path]

\* if (!result.ok && this.isPathed) return new PawError(this.makeIssueWithPath(result.error))
Pathed(s, result) ==
  IF ~result.res.ok /\ s.isPathed
  THEN Run(PawError(MakeIssueWithPath(result.res.error, <<>>)), result.trace)
  ELSE result

ObjectSafeParse(h, id, val) ==
  Pathed(h[id], IF h[id].isImmediate THEN ObjectSafeParseImmediate(h, id, val)
                ELSE ObjectSafeParseRetained(h, id, val))

\* a loop over the alternatives that goes on after an Ok one and returns the
\* last Ok result: the first match C13 rules out
UnionLastMatch(h, id, input, j) ==
  IF j > Len(h[id].schemas)
  THEN Run(IF IsNullish(input)
           THEN PawError(PawRequiredIssue(Coalesce(h[id].reqmessage,
                  "Expected union but received " \o JsString(input))))
           ELSE PawError(PawUnionIssue(Coalesce(h[id].message,
                  "Value does not match any of the union variants"))),
           <<>>)
  ELSE LET parsed == Item(id, j, input, SafeParse(h, h[id].schemas[j], input))
           rest == UnionFrom(h, id, input, j + 1)
       IN IF parsed.res.ok /\ ~rest.res.ok
          THEN Run(parsed.res, parsed.trace \o rest.trace)
          ELSE After(parsed.trace, rest)

\* a union that answers Required for null and undefined before it tries any
\* alternative: the order C14 rules out
UnionRequiredFirst(h, id, input, j) ==
  IF j > Len(h[id].schemas) \/ IsNullish(input)
  THEN Run(IF IsNullish(input)
           THEN PawError(PawRequiredIssue(Coalesce(h[id].reqmessage,
                  "Expected union but received " \o JsString(input))))
           ELSE PawError(PawUnionIssue(Coalesce(h[id].message,
                  "Value does not match any of the union variants"))),
           <<>>)
  ELSE LET parsed == Item(id, j, input, SafeParse(h, h[id].schemas[j], input))
       IN IF parsed.res.ok
          THEN After(parsed.trace,
                     Checked(parsed.res.value,
                             RunChecks(h[id], id, input, parsed.res.value)))
          ELSE After(parsed.trace, UnionFrom(h, id, input, j + 1))

\* a union that goes on to the next alternative when a check fails on the
\* output of an Ok one: the backtracking C28 rules out
UnionBacktrack(h, id, input, j) ==
  IF j > Len(h[id].schemas)
  THEN Run(IF IsNullish(input)
           THEN PawError(PawRequiredIssue(Coalesce(h[id].reqmessage,
                  "Expected union but received " \o JsString(input))))
           ELSE PawError(PawUnionIssue(Coalesce(h[id].message,
                  "Value does not match any of the union variants"))),
           <<>>)
  ELSE LET parsed == Item(id, j, input, SafeParse(h, h[id].schemas[j], input))
           checked == RunChecks(h[id], id, input, parsed.res.value)
       IN IF ~parsed.res.ok
          THEN After(parsed.trace, UnionFrom(h, id, input, j + 1))
          ELSE IF checked.res.ok
          THEN After(parsed.trace, Checked(parsed.res.value, checked))
          ELSE After(parsed.trace \o checked.trace, UnionFrom(h, id, input, j + 1))

\* the loop over the alternatives from alternative j: the first Ok one is
\* checked and returned
UnionFrom(h, id, input, j) ==
  IF j > Len(h[id].schemas)
  THEN Run(IF IsNullish(input)
           THEN PawError(PawRequiredIssue(Coalesce(h[id].reqmessage,
                  "Expected union but received " \o JsString(input))))
           ELSE PawError(PawUnionIssue(Coalesce(h[id].message,
                  "Value does not match any of the union variants"))),
           <<>>)
  ELSE LET parsed == Item(id, j, input, SafeParse(h, h[id].schemas[j], input))
       IN IF parsed.res.ok
          THEN After(parsed.trace,
                     Checked(parsed.res.value,
                             RunChecks(h[id], id, input, parsed.res.value)))
          ELSE After(parsed.trace, UnionFrom(h, id, input, j + 1))

\* the structural stage of a union on the refined input: rest is the run of
\* the loop over the alternatives, whose first Ok result, if any, is the
\* outcome of the stage
UnionParse(id, input, rest) ==
  LET matched == SelectSeq(rest.trace, LAMBDA e : e.ev = "item" /\ e.id = id /\ e.ok)
  IN After(<<Ev("parse", id, 0, input,
                IF Len(matched) > 0 THEN matched[1].ret ELSE rest.res)>>, rest)

UnionSafeParse(h, id, val) ==
  LET refined == RunRefinements(h[id], id, val)
  IN Refined(refined,
             UnionParse(id, refined.res.value, UnionFrom(h, id, refined.res.value, 1)))

\* a wrapper that answers for null and undefined alike: the interception of
\* the other wrapper's sentinel C15 rules out
WrappedNullish(h, id, sentinel, input) ==
  IF IsNullish(input) THEN Run(PawOk(input), <<>>)
  ELSE Item(id, 0, input, SafeParse(h, h[id].parser, input))

\* the end of Optional and Nullable: the sentinel is Ok as it is, anything
\* else goes to the wrapped parser
Wrapped(h, id, sentinel, input) ==
  IF input.t = sentinel THEN Run(PawOk(input), <<>>)
  ELSE Item(id, 0, input, SafeParse(h, h[id].parser, input))

\* refines, then undefined is Ok(undefined), anything else goes to the wrapped parser
OptionalSafeParse(h, id, val) ==
  LET refined == RunRefinements(h[id], id, val)
  IN Refined(refined, Wrapped(h, id, "undefined", refined.res.value))

\* refines, then null is Ok(null), anything else goes to the wrapped parser
NullableSafeParse(h, id, val) ==
  LET refined == RunRefinements(h[id], id, val)
  IN Refined(refined, Wrapped(h, id, "null", refined.res.value))

\* fn on the wrapped schema's Ok value
Transformed(s, id, parsed, out) ==
  IF ~parsed.res.ok THEN parsed
  ELSE Run(out, parsed.trace \o <<Ev("transform", id, 0, parsed.res.value, out)>>)

\* a Transform that hands fn the value the caller passed instead of the
\* wrapped schema's Ok value: the chaining C11 rules out
TransformOnInput(h, id, val) ==
  LET parsed == Item(id, 0, val, SafeParse(h, h[id].schema, val))
  IN Transformed(h[id], id, [parsed EXCEPT !.res = IF parsed.res.ok THEN PawOk(val) ELSE @],
                 PawTransformFn(h[id].fn, PawTransformContext(val, h[id].src)))

\* the wrapped schema's safeParse, then fn on its Ok value
TransformSafeParse(h, id, val) ==
  LET parsed == Item(id, 0, val, SafeParse(h, h[id].schema, val))
  IN Transformed(h[id], id, parsed,
                 PawTransformFn(h[id].fn, PawTransformContext(parsed.res.value, h[id].src)))

SafeParse(h, id, val) ==
  CASE h[id].kind \in {"string", "number", "boolean", "unknown", "any", "literal"} ->
         ScalarSafeParse(h[id], id, val)
    [] h[id].kind = "array" -> ArraySafeParse(h, id, val)
    [] h[id].kind = "object" -> ObjectSafeParse(h, id, val)
    [] h[id].kind = "union" -> UnionSafeParse(h, id, val)
    [] h[id].kind = "optional" -> OptionalSafeParse(h, id, val)
    [] h[id].kind = "nullable" -> NullableSafeParse(h, id, val)
    [] OTHER -> TransformSafeParse(h, id, val)

(***************************************************************************)
(* parse: what the call does to its caller, a returned value or a thrown   *)
(* PawParseError carrying the issue                                        *)
(***************************************************************************)
Returned(value) == [thrown |-> FALSE, value |-> value, issue |-> NoIssue]

PawParseError(issue) == [thrown |-> TRUE, value |-> Undefined, issue |-> issue]

\* if (!parsed.ok) throw new PawParseError(parsed.error); return parsed.value
ValueOrThrow(parsed) ==
  IF ~parsed.ok THEN PawParseError(parsed.error) ELSE Returned(parsed.value)

\* parse of every class but Transform: this.safeParse, throw on Err
SchemaParse(h, id, val) == ValueOrThrow(SafeParse(h, id, val).res)

\* parse of a Transform: the wrapped schema's safeParse, throw on Err,
\* return parsed.value
TransformParse(h, id, val) == ValueOrThrow(SafeParse(h, h[id].schema, val).res)

Parse(h, id, val) ==
  IF h[id].kind = "transform" THEN TransformParse(h, id, val) ELSE SchemaParse(h, id, val)

(***************************************************************************)
(* The caller: builder methods and parse calls                             *)
(***************************************************************************)
Ids == 1..Len(heap)

Has(s, f) == f \in DOMAIN s

\* classes by the builder methods they offer
Refinable == {"string", "number", "boolean", "unknown", "any", "array", "object",
              "literal", "union", "optional", "nullable"}

Checkable == Refinable \ {"optional", "nullable"}

Transformable == Checkable \cup {"transform"}

MaybeNullable == Checkable \ {"unknown", "any"}

MaybeOptional == MaybeNullable \cup {"nullable"}

\* number of builder calls a schema object reflects
ConfigOf(s) ==
    (IF Has(s, "refines") THEN Len(s.refines) ELSE 0)
  + (IF Has(s, "checks") THEN Len(s.checks) ELSE 0)
  + (IF s.kind \in {"transform", "optional", "nullable"} THEN 1 ELSE 0)
  + (IF Has(s, "isImmediate") /\ s.isImmediate THEN 1 ELSE 0)
  + (IF Has(s, "isStrict") /\ s.isStrict THEN 1 ELSE 0)
  + (IF Has(s, "isPathed") /\ s.isPathed THEN 1 ELSE 0)
  + (IF Has(s, "reqmessage") /\ s.reqmessage # NoMsg THEN 1 ELSE 0)
  + (IF Has(s, "mincfg") /\ s.mincfg.set THEN 1 ELSE 0)
  + (IF Has(s, "maxcfg") /\ s.maxcfg.set THEN 1 ELSE 0)
  + (IF Has(s, "intcfg") /\ s.intcfg.value THEN 1 ELSE 0)

RECURSIVE ConfigCount(_)
ConfigCount(h) == IF h = <<>> THEN 0 ELSE ConfigOf(Head(h)) + ConfigCount(Tail(h))

\* the schemas no other schema wraps or holds: the ones a caller parses with
Children(s) ==
  CASE s.kind = "array" -> {s.unit}
    [] s.kind = "object" -> {s.fields[j][2] : j \in 1..Len(s.fields)}
    [] s.kind = "union" -> {s.schemas[j] : j \in 1..Len(s.schemas)}
    [] s.kind = "transform" -> {s.schema}
    [] s.kind \in {"optional", "nullable"} -> {s.parser}
    [] OTHER -> {}

Roots(h) == {id \in 1..Len(h) : \A p \in 1..Len(h) : id \notin Children(h[p])}

NoCall == [op |-> "none"]

\* the factory functions string(), number(), ... array(unit), object(fields),
\* literal(values), union(schemas): the schemas a caller starts from
PipelineHeaps ==
  { <<PawStringParser(NoMsg)>>,
    <<PawNumberParser(NoMsg)>>,
    <<PawBooleanParser(NoMsg)>>,
    <<PawUnknownParser>>,
    <<PawAnyParser>>,
    <<PawLiteralParser(<<Str("ab"), Num(2)>>, NoMsg)>>,
    <<PawNumberParser(NoMsg), PawArrayParser(1, NoMsg)>>,
    <<PawNumberParser(NoMsg), PawObjectParser(<<<<"a", 1>>>>, NoMsg)>>,
    <<PawBooleanParser(NoMsg), PawNumberParser(NoMsg), PawUnionParser(<<1, 2>>, NoMsg)>> }

PipelineInputs ==
  { Undefined, Null, Num(1), Num(2), Half(3), Str("1"), Str("ab"), Bool(TRUE),
    Arr(<<Num(2)>>), Arr(<<Str("ab")>>), Obj(<<<<"a", Num(2)>>>>) }

PipelineRefineFns == {"double", "default"}

PipelineCheckFns == {"truthy", "even"}

Init ==
  /\ heap \in PipelineHeaps
  /\ last = NoCall

\* schema.refine(fn): this.refines.push(fn); return this
refine(id, fn) ==
  /\ heap[id].kind \in Refinable
  /\ heap' = [heap EXCEPT ![id].refines = Append(@, fn)]
  /\ last' = NoCall

\* schema.check(fn): this.checks.push(fn); return this
check(id, fn) ==
  /\ heap[id].kind \in Checkable
  /\ heap' = [heap EXCEPT ![id].checks = Append(@, fn)]
  /\ last' = NoCall

\* a transform() that never hands a src on, so that a later link of a chain
\* defaults to the kind of the Transform it wraps: the provenance C12 rules out
transformWithoutSrc(id, fn) ==
  /\ heap[id].kind \in Transformable
  /\ heap' = Append(heap, PawTransformParser(fn, id, heap[id].kind))
  /\ last' = NoCall

\* schema.transform(fn): a new Transform around the receiver; a Transform
\* hands its own src on, any other class leaves src to default to its kind
transform(id, fn) ==
  /\ heap[id].kind \in Transformable
  /\ heap' = Append(heap, PawTransformParser(fn, id,
                 IF heap[id].kind = "transform" THEN heap[id].src ELSE heap[id].kind))
  /\ last' = NoCall

\* schema.optional(): a new Optional around the receiver
optional(id) ==
  /\ heap[id].kind \in MaybeOptional
  /\ heap' = Append(heap, PawOptionalParser(id))
  /\ last' = NoCall

\* schema.nullable(): a new Nullable around the receiver
nullable(id) ==
  /\ heap[id].kind \in MaybeNullable
  /\ heap' = Append(heap, PawNullableParser(id))
  /\ last' = NoCall

\* what an observer of a safeParse call sees
Observed(id, val, run) ==
  [op |-> "safeParse", id |-> id, input |-> val, res |-> run.res, trace |-> run.trace]

\* a safeParse that clears the pathed flag of the schema it ran on: the
\* write to the configuration C21 rules out
safeParseOnce(id, val) ==
  /\ last' = Observed(id, val, SafeParse(heap, id, val))
  /\ heap' = [heap EXCEPT ![id] = IF Has(@, "isPathed") THEN [@ EXCEPT !.isPathed = FALSE]
                                  ELSE @]

\* schema.safeParse(val)
safeParse(id, val) ==
  /\ last' = Observed(id, val, SafeParse(heap, id, val))
  /\ UNCHANGED heap

\* schema.parse(val)
parse(id, val) ==
  /\ last' = [op |-> "parse", id |-> id, input |-> val, out |-> Parse(heap, id, val)]
  /\ UNCHANGED heap

\* configuration comes first: the builder calls end before a parse call is made
Configure ==
  /\ last = NoCall
  /\ ConfigCount(heap) < MaxConfig
  /\ \E id \in Ids :
       \/ \E fn \in PipelineRefineFns : refine(id, fn)
       \/ \E fn \in PipelineCheckFns : check(id, fn)
       \/ \E fn \in TransformFns : transform(id, fn)
       \/ optional(id)
       \/ nullable(id)

\* one call is observed per run: a call leaves the heap as it is, so a later
\* call would see the schemas this one saw
Call ==
  /\ last = NoCall
  /\ \E id \in Roots(heap) : \E val \in PipelineInputs :
       \/ safeParse(id, val)
       \/ parse(id, val)

Next == Configure \/ Call

Spec == Init /\ [][Next]_vars

(***************************************************************************)
(* The nested model: arrays and objects over number and string leaves,     *)
(* configured with immediate(), strict(), pathed() and with user functions *)
(* that fail with a path of their own, then parsed once.                   *)
(***************************************************************************)
\* object({a: number(), b: string()}), array(number()),
\* object({a: array(number()), b: string()}),
\* object({a: object({c: number(), d: string()}), b: string()}),
\* array(object({a: number(), b: string()}))
NestedBases ==
  << <<PawNumberParser(NoMsg), PawStringParser(NoMsg),
      PawObjectParser(<<<<"a", 1>>, <<"b", 2>>>>, NoMsg)>>,
    <<PawNumberParser(NoMsg), PawArrayParser(1, NoMsg)>>,
    <<PawNumberParser(NoMsg), PawStringParser(NoMsg), PawArrayParser(1, NoMsg),
      PawObjectParser(<<<<"a", 3>>, <<"b", 2>>>>, NoMsg)>>,
    <<PawNumberParser(NoMsg), PawStringParser(NoMsg),
      PawObjectParser(<<<<"c", 1>>, <<"d", 2>>>>, NoMsg),
      PawObjectParser(<<<<"a", 3>>, <<"b", 2>>>>, NoMsg)>>,
    <<PawNumberParser(NoMsg), PawStringParser(NoMsg),
      PawObjectParser(<<<<"a", 1>>, <<"b", 2>>>>, NoMsg),
      PawArrayParser(3, NoMsg)>> >>

NestedHeaps == {NestedBases[i] : i \in DOMAIN NestedBases}

\* the sequences over S of length at most n
RECURSIVE SeqsUpTo(_, _)
SeqsUpTo(S, n) ==
  IF n = 0 THEN {<<>>}
  ELSE LET shorter == SeqsUpTo(S, n - 1)
       IN shorter \cup {Append(l, x) : l \in shorter, x \in S}

\* the values a caller hands to schema id: for a leaf one value of each leaf
\* type, for an array every array of element samples up to MaxArrayLen and a
\* non-array, for an object every combination of field samples with and
\* without an undeclared key "z", the empty object and a non-object
RECURSIVE Samples(_, _)
RECURSIVE Rows(_, _, _)
Rows(h, fields, j) ==
  IF j > Len(fields) THEN {<<>>}
  ELSE {<<<<fields[j][1], x>>>> \o r :
          x \in Samples(h, fields[j][2]), r \in Rows(h, fields, j + 1)}

Samples(h, id) ==
  LET s == h[id]
  IN CASE s.kind = "array" ->
            {Arr(e) : e \in SeqsUpTo(Samples(h, s.unit), MaxArrayLen)} \cup {Str("ab")}
       [] s.kind = "object" ->
            LET rows == Rows(h, s.fields, 1)
            IN {Obj(r) : r \in rows}
                 \cup {Obj(r \o <<<<"z", Num(1)>>>>) : r \in rows}
                 \cup {Obj(<<>>), Num(1)}
       [] OTHER -> {Num(1), Str("ab")}

\* the samples of each base's outermost schema, which is its last one
NestedInputs == [i \in DOMAIN NestedBases |-> Samples(NestedBases[i], Len(NestedBases[i]))]

\* configuration leaves the classes of a heap's schemas as the factory made them
KindsOf(h) == [j \in DOMAIN h |-> h[j].kind]

InputsFor(h) ==
  NestedInputs[CHOOSE i \in DOMAIN NestedBases : KindsOf(NestedBases[i]) = KindsOf(h)]

InitNested ==
  /\ heap \in NestedHeaps
  /\ last = NoCall

\* schema.immediate(): this.isImmediate = true; return this
immediate(id) ==
  /\ heap[id].kind \in {"array", "object"}
  /\ heap' = [heap EXCEPT ![id].isImmediate = TRUE]
  /\ last' = NoCall

\* schema.strict(): this.isStrict = true; return this
strict(id) ==
  /\ heap[id].kind = "object"
  /\ heap' = [heap EXCEPT ![id].isStrict = TRUE]
  /\ last' = NoCall

\* schema.pathed(): this.isPathed = true; return this
pathed(id) ==
  /\ heap[id].kind = "object"
  /\ heap' = [heap EXCEPT ![id].isPathed = TRUE]
  /\ last' = NoCall

ConfigureNested ==
  /\ last = NoCall
  /\ ConfigCount(heap) < MaxConfig
  /\ \E id \in Ids :
       \/ immediate(id)
       \/ strict(id)
       \/ pathed(id)
       \/ check(id, "failAt")
       \/ refine(id, "rejectAt")

CallNested ==
  /\ last = NoCall
  /\ \E id \in Roots(heap) : \E val \in InputsFor(heap) : safeParse(id, val)

NextNested == ConfigureNested \/ CallNested

SpecNested == InitNested /\ [][NextNested]_vars

(***************************************************************************)
(* Properties of one observed call                                         *)
(***************************************************************************)
\* the schema a chain of transforms is built on
RECURSIVE Subject(_, _)
Subject(h, id) == IF h[id].kind = "transform" THEN Subject(h, h[id].schema) ELSE id

\* the schema and the transforms stacked on it, down from id
RECURSIVE Chain(_, _)
Chain(h, id) ==
  IF h[id].kind = "transform" THEN {id} \cup Chain(h, h[id].schema) ELSE {id}

StageRank(ev) ==
  CASE ev = "refine" -> 1
    [] ev = "parse" -> 2
    [] ev = "check" -> 3
    [] OTHER -> 4

\* the stage events of the called schema's own pipeline, in the order they ran
OwnStages ==
  SelectSeq(last.trace, LAMBDA e : e.id \in Chain(heap, last.id) /\ e.ev # "item")

EventsOf(ev, id) == SelectSeq(last.trace, LAMBDA e : e.ev = ev /\ e.id = id)

\* C1: the stages of a safeParse run in the order refine, structural
\* validation, check, transform; a stage is entered only if every earlier
\* stage succeeded, and the failing stage's issue is the result (a failing
\* check gives a Check issue with no transform called, a failing structural
\* validation gives its issue with no check called).
C1_PipelineOrder ==
  last.op = "safeParse" =>
    LET own == OwnStages
    IN /\ \A i \in 1..Len(own) : \A j \in 1..Len(own) :
            i < j => StageRank(own[i].ev) <= StageRank(own[j].ev)
       /\ \A i \in 1..(Len(own) - 1) : own[i].ok
       /\ \A i \in 1..Len(own) :
            ~own[i].ok => /\ i = Len(own)
                          /\ last.res = own[i].ret
                          /\ own[i].ev = "check" => last.res.error.kind = "check"
                          /\ own[i].ev = "refine" => last.res.error.kind = "refine"

\* a refined, checked and transformed schema whose check failed after the
\* refine and the structural validation succeeded
C1_Witness ==
  /\ last.op = "safeParse"
  /\ heap[last.id].kind = "transform"
  /\ LET own == OwnStages
     IN /\ Len(own) = 3
        /\ own[1].ev = "refine" /\ own[1].ok
        /\ own[2].ev = "parse" /\ own[2].ok
        /\ own[3].ev = "check" /\ ~own[3].ok
        /\ ~last.res.ok /\ last.res.error.kind = "check"

ThrowsErrOf(r) ==
  /\ last.out.thrown <=> ~r.ok
  /\ ~r.ok => last.out.issue = r.error

ReturnsOkOf(r) == r.ok => ~last.out.thrown /\ last.out.value = r.value

\* C2: parse throws PawParseError carrying issue e exactly when safeParse on
\* the same schema and input returns Err(e), for every class, Transform
\* included.
C2_ParseThrowsIffSafeParseErr ==
  last.op = "parse" => ThrowsErrOf(SafeParse(heap, last.id, last.input).res)

\* C3: when safeParse returns Ok(x), parse on the same schema and input
\* returns x, for every class, Transform included.
C3_ParseReturnsSafeParseValue ==
  last.op = "parse" => ReturnsOkOf(SafeParse(heap, last.id, last.input).res)

\* C9: the refine functions of the parsed schema run first and in
\* registration order; the first receives the raw input, each later one the
\* previous one's Ok value; the first Err ends the parse with exactly that
\* Refine issue, no later refine and no structural validation; if all are Ok,
\* structural validation runs on the last refine's value.
C9_RefineChaining ==
  (last.op = "safeParse" /\ heap[last.id].kind \in Refinable) =>
    LET id == last.id
        s == heap[id]
        tr == last.trace
        rs == EventsOf("refine", id)
        n == Len(rs)
    IN /\ n <= Len(s.refines) /\ n <= Len(tr)
       /\ Len(s.refines) > 0 => n > 0 /\ rs[1].arg = last.input
       /\ \A i \in 1..n :
            /\ tr[i] = rs[i]
            /\ rs[i].k = i
            /\ rs[i].ret = PawRefineFn(s.refines[i], PawRefineContext(rs[i].arg, s.kind))
       /\ \A i \in 1..(n - 1) : rs[i].ok /\ rs[i + 1].arg = rs[i].ret.value
       /\ (n > 0 /\ ~rs[n].ok) =>
            /\ Len(tr) = n
            /\ last.res = rs[n].ret
            /\ last.res.error.kind = "refine"
       /\ (n = 0 \/ rs[n].ok) =>
            /\ n = Len(s.refines)
            /\ LET v == IF n = 0 THEN last.input ELSE rs[n].ret.value
               IN CASE s.kind \in {"unknown", "any"} ->
                         /\ Len(s.checks) = 0 => last.res = PawOk(v)
                         /\ Len(tr) > n => tr[n + 1].ev = "check" /\ tr[n + 1].arg = v
                    [] s.kind \in {"optional", "nullable"} ->
                         IF v.t = (IF s.kind = "optional" THEN "undefined" ELSE "null")
                         THEN Len(tr) = n /\ last.res = PawOk(v)
                         ELSE /\ Len(tr) > n
                              /\ tr[n + 1].ev = "item" /\ tr[n + 1].id = id
                              /\ tr[n + 1].arg = v
                    [] OTHER ->
                         /\ Len(tr) > n
                         /\ tr[n + 1].ev = "parse" /\ tr[n + 1].id = id
                         /\ tr[n + 1].arg = v
                         /\ s.kind \in {"string", "number", "boolean", "literal"} =>
                              tr[n + 1].ret = Validate(s, v)

\* two refines, the first Ok with a changed value, the second Err
C9_Witness ==
  /\ last.op = "safeParse"
  /\ heap[last.id].kind \in Refinable
  /\ LET rs == EventsOf("refine", last.id)
     IN /\ Len(rs) = 2
        /\ rs[1].ok /\ rs[1].ret.value # rs[1].arg
        /\ ~rs[2].ok
        /\ last.res = rs[2].ret

\* the result of the structural validation of the called schema: the parse
\* event's, or for unknown() and any() the refined value itself
Validated ==
  LET id == last.id
      rs == EventsOf("refine", id)
      ps == EventsOf("parse", id)
  IN IF heap[id].kind \in {"unknown", "any"}
     THEN IF Len(rs) = 0 THEN [ok |-> TRUE, input |-> last.input, value |-> last.input]
          ELSE IF ~rs[Len(rs)].ok
          THEN [ok |-> FALSE, input |-> Undefined, value |-> Undefined]
          ELSE [ok |-> TRUE, input |-> rs[Len(rs)].ret.value,
                value |-> rs[Len(rs)].ret.value]
     ELSE IF Len(ps) = 0 THEN [ok |-> FALSE, input |-> Undefined, value |-> Undefined]
     ELSE [ok |-> ps[1].ok, input |-> ps[1].arg,
           value |-> IF ps[1].ok THEN ps[1].ret.value ELSE Undefined]

\* C10: after structural validation succeeds the check functions run in
\* registration order, each on the structurally validated value; the first
\* Err is returned and no later check runs; if all are Ok the result is Ok of
\* the structurally validated value, unchanged by the checks.
C10_CheckChaining ==
  (last.op = "safeParse" /\ heap[last.id].kind \in Checkable) =>
    LET id == last.id
        s == heap[id]
        tr == last.trace
        cs == EventsOf("check", id)
        m == Len(cs)
        valid == Validated
    IN /\ ~valid.ok => m = 0
       /\ valid.ok =>
            /\ m <= Len(s.checks)
            /\ Len(s.checks) > 0 => m > 0
            /\ \A i \in 1..m :
                 /\ tr[Len(tr) - m + i] = cs[i]
                 /\ cs[i].k = i
                 /\ cs[i].arg = valid.value
                 /\ cs[i].ret = PawCheckFn(s.checks[i],
                                  PawCheckContext(valid.input, valid.value, s.kind))
            /\ \A i \in 1..(m - 1) : cs[i].ok
            /\ (m > 0 /\ ~cs[m].ok) =>
                 /\ last.res = cs[m].ret
                 /\ last.res.error.kind = "check"
            /\ (m = 0 \/ cs[m].ok) =>
                 /\ m = Len(s.checks)
                 /\ last.res = PawOk(valid.value)

\* two checks, the first Ok, the second Err
C10_Witness ==
  /\ last.op = "safeParse"
  /\ heap[last.id].kind \in Checkable
  /\ LET cs == EventsOf("check", last.id)
     IN /\ Len(cs) = 2
        /\ cs[1].ok
        /\ ~cs[2].ok
        /\ last.res = cs[2].ret

(***************************************************************************)
(* Properties of one observed call on an array or object                   *)
(***************************************************************************)
IsAggregate == heap[last.id].kind \in {"array", "object"}

IsArr == heap[last.id].kind = "array"

\* the value the called schema's structural stage received
RootArg == EventsOf("parse", last.id)[1].arg

RootTypeOk ==
  IF IsArr THEN ParseArray(heap[last.id], RootArg).ok
  ELSE ParseObject(heap[last.id], RootArg).ok

\* the positions of the elements of the input array, or of the declared fields
Slots == IF IsArr THEN 1..Len(RootArg.a) ELSE 1..Len(heap[last.id].fields)

\* what the child schema says of the element or field at position j, by itself
SlotResult(j) ==
  IF IsArr THEN SafeParse(heap, heap[last.id].unit, RootArg.a[j]).res
  ELSE SafeParse(heap, heap[last.id].fields[j][2],
                 Get(RootArg, heap[last.id].fields[j][1])).res

Invalid == {j \in Slots : ~SlotResult(j).ok}

\* the position a child entry of an aggregate issue speaks of
SlotOf(entry) ==
  IF IsArr THEN entry.idx + 1
  ELSE CHOOSE j \in Slots : heap[last.id].fields[j][1] = entry.field

\* an issue tree with every path removed
RECURSIVE StripPath(_)
StripPath(issue) ==
  [issue EXCEPT
     !.path = NoPath,
     !.issues = [j \in 1..Len(issue.issues) |->
                   [issue.issues[j] EXCEPT !.issue = StripPath(issue.issues[j].issue)]]]

\* the called array or object passed its own type check and has an invalid
\* element or field
InvalidChildCase ==
  /\ last.op = "safeParse"
  /\ IsAggregate
  /\ Len(EventsOf("parse", last.id)) = 1
  /\ RootTypeOk
  /\ Invalid # {}

IsAggregateIssue ==
  /\ ~last.res.ok
  /\ last.res.error.kind = (IF IsArr THEN "array-schema" ELSE "object-schema")

\* C4: in retained mode, when the array/object check passes and some element
\* or field is invalid, the result is one ArraySchema/ObjectSchema issue whose
\* children are exactly the invalid elements/fields, one entry each carrying
\* the child's issue, in ascending index order / declared field order.
C4_RetainedCompleteness ==
  (InvalidChildCase /\ ~heap[last.id].isImmediate) =>
    /\ IsAggregateIssue
    /\ LET entries == last.res.error.issues
       IN /\ Len(entries) = Cardinality(Invalid)
          /\ \A e \in 1..Len(entries) :
               /\ SlotOf(entries[e]) \in Invalid
               /\ StripPath(entries[e].issue)
                    = StripPath(SlotResult(SlotOf(entries[e])).error)
          /\ \A j \in Invalid : \E e \in 1..Len(entries) : SlotOf(entries[e]) = j
          /\ \A e \in 1..Len(entries) : \A f \in 1..Len(entries) :
               e < f => SlotOf(entries[e]) < SlotOf(entries[f])

\* a retained parse that collected two invalid children
C4_Witness ==
  /\ InvalidChildCase
  /\ ~heap[last.id].isImmediate
  /\ Cardinality(Invalid) = 2
  /\ IsAggregateIssue
  /\ Len(last.res.error.issues) = 2

\* the lowest invalid position
FirstInvalid == CHOOSE j \in Invalid : \A i \in Invalid : j <= i

\* C5: in immediate mode, when some element or field is invalid, the
\* ArraySchema/ObjectSchema issue has exactly one child entry, the invalid
\* element/field of lowest index / earliest declared position, and no
\* element/field after it is handed to its child schema.
C5_ImmediateShortCircuit ==
  (InvalidChildCase /\ heap[last.id].isImmediate) =>
    /\ IsAggregateIssue
    /\ LET entries == last.res.error.issues
           items == EventsOf("item", last.id)
       IN /\ Len(entries) = 1
          /\ SlotOf(entries[1]) = FirstInvalid
          /\ StripPath(entries[1].issue) = StripPath(SlotResult(FirstInvalid).error)
          /\ Len(items) = FirstInvalid
          /\ \A e \in 1..Len(items) :
               (IF IsArr THEN items[e].k + 1 ELSE items[e].k) = e

\* an immediate parse of an input with two invalid children, of which only
\* the first was visited
C5_Witness ==
  /\ InvalidChildCase
  /\ heap[last.id].isImmediate
  /\ Cardinality(Invalid) = 2
  /\ IsAggregateIssue
  /\ Len(last.res.error.issues) = 1
  /\ Len(EventsOf("item", last.id)) = 1

\* the set of the elements of a sequence
Range(seq) == {seq[i] : i \in 1..Len(seq)}

DeclaredKeys(s) == {s.fields[j][1] : j \in 1..Len(s.fields)}

\* the keys of an Ok output against the flag of the object schema s
Projected(s, input, output) ==
  IF s.isStrict THEN Range(OwnKeys(output)) \subseteq DeclaredKeys(s)
  ELSE Range(OwnKeys(input)) \subseteq Range(OwnKeys(output))

\* C6: an Ok output of a strict object schema, in either mode, holds only
\* declared keys; an Ok output of a non-strict one holds every key of the
\* input.  Holds of the called schema and of every object schema below it.
C6_StrictProjection ==
  last.op = "safeParse" =>
    /\ (heap[last.id].kind = "object" /\ last.res.ok) =>
         Projected(heap[last.id], last.input, last.res.value)
    /\ \A i \in 1..Len(last.trace) :
         LET e == last.trace[i]
         IN (e.ev = "parse" /\ heap[e.id].kind = "object" /\ e.ok) =>
              Projected(heap[e.id], e.arg, e.ret.value)

\* a strict object accepted an input with an undeclared key and left it out
C6_Witness ==
  /\ last.op = "safeParse"
  /\ heap[last.id].kind = "object"
  /\ heap[last.id].isStrict
  /\ last.res.ok
  /\ "z" \in Range(OwnKeys(last.input))
  /\ "z" \notin Range(OwnKeys(last.res.value))
  /\ Range(OwnKeys(last.res.value)) = DeclaredKeys(heap[last.id])

\* every issue of the tree has the path that leads to it from path
RECURSIVE PathsFrom(_, _)
PathsFrom(issue, path) ==
  /\ issue.path = path
  /\ \A j \in 1..Len(issue.issues) :
       PathsFrom(issue.issues[j].issue,
                 path \o <<IF issue.kind = "array-schema" THEN Num(issue.issues[j].idx)
                           ELSE Str(issue.issues[j].field)>>)

\* the child schema an item event of an array or object handed its value to
ChildOf(e) ==
  IF heap[e.id].kind = "array" THEN heap[e.id].unit ELSE heap[e.id].fields[e.k][2]

\* C7: when a pathed object schema returns Err, every issue of the returned
\* tree, at any depth of ObjectSchema and ArraySchema issues, has as its path
\* the field names and array indices that lead to it from the pathed object.
\* Holds of the called schema and of every pathed object below it.
C7_PathTagging ==
  last.op = "safeParse" =>
    /\ (heap[last.id].kind = "object" /\ heap[last.id].isPathed /\ ~last.res.ok) =>
         PathsFrom(last.res.error, <<>>)
    /\ \A i \in 1..Len(last.trace) :
         LET e == last.trace[i]
         IN (/\ e.ev = "item"
             /\ heap[ChildOf(e)].kind = "object"
             /\ heap[ChildOf(e)].isPathed
             /\ ~e.ok) => PathsFrom(e.ret.error, <<>>)

\* a pathed object returned a tree with an issue two levels down
C7_Witness ==
  /\ last.op = "safeParse"
  /\ heap[last.id].kind = "object"
  /\ heap[last.id].isPathed
  /\ ~last.res.ok
  /\ \E j \in 1..Len(last.res.error.issues) :
       LET inner == last.res.error.issues[j].issue
       IN /\ Len(inner.issues) > 0
          /\ Len(inner.issues[1].issue.path) = 2
          /\ inner.issues[1].issue.path[1] = Str(last.res.error.issues[j].field)

RECURSIVE NoPathIn(_)
NoPathIn(issue) ==
  /\ issue.path = NoPath
  /\ \A j \in 1..Len(issue.issues) : NoPathIn(issue.issues[j].issue)

\* no object of the heap called pathed() and no user function of the heap
\* passes a path to ctx.error
PathFree(h) ==
  \A id \in 1..Len(h) :
    /\ Has(h[id], "isPathed") => ~h[id].isPathed
    /\ Has(h[id], "refines") => "rejectAt" \notin Range(h[id].refines)
    /\ Has(h[id], "checks") => "failAt" \notin Range(h[id].checks)

\* C8: with no pathed() object and no user function that passes a path, no
\* issue of an Err result has a path, the root's and every nested child's,
\* under every combination of immediate/retained and strict/non-strict.
C8_PathAbsentUnlessPathed ==
  (last.op = "safeParse" /\ ~last.res.ok /\ PathFree(heap)) => NoPathIn(last.res.error)

(***************************************************************************)
(* Properties of a chain of transforms                                     *)
(***************************************************************************)
\* the transforms stacked on a schema, innermost first
RECURSIVE Links(_, _)
Links(h, id) ==
  IF h[id].kind = "transform" THEN Append(Links(h, h[id].schema), id) ELSE <<>>

TransformEvents == SelectSeq(last.trace, LAMBDA e : e.ev = "transform")

\* what the schema the chain of the called Transform starts from says of the
\* input, by itself
BaseResult == SafeParse(heap, Subject(heap, last.id), last.input).res

\* the links ts of the chain that ran, against the outcome base of the schema
\* the chain links is built on
ChainRan(links, ts, base) ==
  /\ ~base.ok => Len(ts) = 0 /\ last.res = base
  /\ base.ok =>
       /\ Len(ts) >= 1 /\ Len(ts) <= Len(links)
       /\ ts[1].arg = base.value
       /\ \A i \in 1..Len(ts) :
            /\ ts[i].id = links[i]
            /\ ts[i].ret = PawTransformFn(heap[links[i]].fn,
                             PawTransformContext(ts[i].arg, heap[links[i]].src))
       /\ \A i \in 1..(Len(ts) - 1) : ts[i].ok /\ ts[i + 1].arg = ts[i].ret.value
       /\ last.res = ts[Len(ts)].ret
       /\ ~ts[Len(ts)].ok => last.res.error.kind = "transform"
       /\ ts[Len(ts)].ok => Len(ts) = Len(links)

\* C11: the safeParse of S.transform(f1)...transform(fn) first runs S's full
\* safeParse; an Err of S is returned as it is and no fi is called; otherwise
\* f1..fn are applied left to right, each to the previous Ok value, and the
\* first fi that returns Err ends the chain with that Transform issue, no
\* later fj being called.
C11_TransformChaining ==
  (last.op = "safeParse" /\ heap[last.id].kind = "transform") =>
    ChainRan(Links(heap, last.id), TransformEvents, BaseResult)

\* a chain of two transforms on a schema that accepted the input, whose first
\* link returned Err, the second never being called
C11_Witness ==
  /\ last.op = "safeParse"
  /\ heap[last.id].kind = "transform"
  /\ Len(Links(heap, last.id)) = 2
  /\ Len(TransformEvents) = 1
  /\ TransformEvents[1].id = Links(heap, last.id)[1]
  /\ ~TransformEvents[1].ok
  /\ last.res = TransformEvents[1].ret

\* C12: a Check or Refine issue made through the context has as src the kind
\* of the schema the function was registered on; a Transform issue made by
\* any link of a chain, the first or a later one, has as src the kind of the
\* schema the chain starts from, never "transform".
C12_IssueProvenance ==
  last.op = "safeParse" =>
    \A i \in 1..Len(last.trace) :
      LET e == last.trace[i]
      IN /\ (e.ev \in {"refine", "check"} /\ ~e.ok) =>
              /\ e.ret.error.kind = e.ev
              /\ e.ret.error.src = heap[e.id].kind
         /\ (e.ev = "transform" /\ ~e.ok) =>
              /\ e.ret.error.kind = "transform"
              /\ e.ret.error.src = heap[Subject(heap, e.id)].kind
              /\ e.ret.error.src # "transform"
              /\ e.id = last.id => last.res = e.ret

\* the second link of a chain on string() returned the issue of the call,
\* whose src is "string"
C12_Witness ==
  /\ last.op = "safeParse"
  /\ heap[last.id].kind = "transform"
  /\ Len(Links(heap, last.id)) = 2
  /\ Len(TransformEvents) = 2
  /\ ~last.res.ok
  /\ last.res.error.kind = "transform"
  /\ last.res.error.src = "string"
  /\ heap[Subject(heap, last.id)].kind = "string"

(***************************************************************************)
(* Properties of the modifier wrappers                                     *)
(***************************************************************************)
\* the called schema is an Optional or Nullable with no refine of its own
PlainWrapper ==
  /\ last.op = "safeParse"
  /\ heap[last.id].kind \in {"optional", "nullable"}
  /\ heap[last.id].refines = <<>>

\* the one value a wrapper answers for
SentinelOf(s) == IF s.kind = "optional" THEN Undefined ELSE Null

\* C15: S.optional().safeParse(undefined) is Ok(undefined) and S is not
\* called; for every other input, null included, the result is S.safeParse
\* of it.  S.nullable().safeParse(null) is Ok(null) and S is not called; for
\* every other input, undefined included, the result is S.safeParse of it.
\* So S.nullable().optional() accepts both null and undefined.
C15_WrapperSentinel ==
  PlainWrapper =>
    LET s == heap[last.id]
    IN /\ last.input = SentinelOf(s) =>
            last.res = PawOk(last.input) /\ last.trace = <<>>
       /\ last.input # SentinelOf(s) =>
            /\ last.res = SafeParse(heap, s.parser, last.input).res
            /\ Len(last.trace) > 0
            /\ last.trace[1].ev = "item" /\ last.trace[1].arg = last.input
       /\ (/\ s.kind = "optional"
           /\ heap[s.parser].kind = "nullable"
           /\ heap[s.parser].refines = <<>>
           /\ IsNullish(last.input)) => last.res = PawOk(last.input)

\* S.nullable().optional() was handed null, passed it on to the Nullable and
\* returned its Ok(null)
C15_Witness ==
  /\ PlainWrapper
  /\ heap[last.id].kind = "optional"
  /\ heap[heap[last.id].parser].kind = "nullable"
  /\ last.input = Null
  /\ last.res = PawOk(Null)
  /\ Len(last.trace) = 1
  /\ last.trace[1].ev = "item" /\ last.trace[1].id = last.id

(***************************************************************************)
(* The union model: unions built over scalar schemas and over Optional and *)
(* Nullable wrappers of them, then parsed once.                            *)
(***************************************************************************)
\* number() and literal([2, "ab"]); boolean() and string(); string() and
\* literal([2, "ab"])
UnionHeaps ==
  { <<PawNumberParser(NoMsg), PawLiteralParser(<<Num(2), Str("ab")>>, NoMsg)>>,
    <<PawBooleanParser(NoMsg), PawStringParser(NoMsg)>>,
    <<PawStringParser(NoMsg), PawLiteralParser(<<Num(2), Str("ab")>>, NoMsg)>> }

UnionInputs == {Undefined, Null, Num(1), Num(2), Str("1"), Str("ab"), Bool(TRUE)}

UnionCount(h) == Cardinality({id \in 1..Len(h) : h[id].kind = "union"})

InitUnion ==
  /\ heap \in UnionHeaps
  /\ last = NoCall

\* union(schemas): a new Union over the schemas given, in the order given
union(schemas) ==
  /\ heap' = Append(heap, PawUnionParser(schemas, NoMsg))
  /\ last' = NoCall

ConfigureUnion ==
  /\ last = NoCall
  /\ \/ /\ UnionCount(heap) < MaxUnions
        /\ \E i \in Ids : \E j \in Ids \ {i} : union(<<i, j>>)
     \/ /\ ConfigCount(heap) < MaxConfig
        /\ \E id \in Ids :
             \/ optional(id)
             \/ nullable(id)
             \/ refine(id, "default")
             \/ heap[id].kind = "union" /\ check(id, "truthy")

CallUnion ==
  /\ last = NoCall
  /\ \E id \in Roots(heap) : \E val \in UnionInputs : safeParse(id, val)

NextUnion == ConfigureUnion \/ CallUnion

SpecUnion == InitUnion /\ [][NextUnion]_vars

(***************************************************************************)
(* Properties of one observed call on a union                              *)
(***************************************************************************)
\* the called schema is a union with no check that got past its refines
UnionCase ==
  /\ last.op = "safeParse"
  /\ heap[last.id].kind = "union"
  /\ heap[last.id].checks = <<>>
  /\ Len(EventsOf("parse", last.id)) = 1

\* the value the union validates: the input after the union's refines
UnionArg == EventsOf("parse", last.id)[1].arg

\* what alternative j says of that value, by itself
Alternative(j) == SafeParse(heap, heap[last.id].schemas[j], UnionArg).res

Accepting == {j \in 1..Len(heap[last.id].schemas) : Alternative(j).ok}

FirstAccepting == CHOOSE j \in Accepting : \A i \in Accepting : j <= i

HasField(fields, k) == \E j \in 1..Len(fields) : fields[j][1] = k

FieldOf(fields, k) == fields[CHOOSE j \in 1..Len(fields) : fields[j][1] = k][2]

\* an overlay in which the owner's schema stays on a key both have: the
\* precedence C16 rules out
MergeFieldsOwnerWins(a, b) == a \o SelectSeq(b, LAMBDA f : ~HasField(a, f[1]))

\* { ...a, ...b }: the keys of a in their order, with b's schema where b has
\* the key, then the keys only b has, in their order
MergeFields(a, b) ==
  [j \in 1..Len(a) |->
     IF HasField(b, a[j][1]) THEN <<a[j][1], FieldOf(b, a[j][1])>> ELSE a[j]]
    \o SelectSeq(b, LAMBDA f : ~HasField(a, f[1]))

\* a clone that is a plain new object over the merged fields, nothing of the
\* owner copied: the inheritance C17 rules out
ExtendWithoutCopy(s, fields, message) ==
  PawObjectParser(MergeFields(s.fields, fields), message)

\* the clone extend returns: a new object over the merged fields with the
\* owner's flags and required message, and the owner's refines and checks
\* registered on it one by one
Extend(s, fields, message) ==
  [PawObjectParser(MergeFields(s.fields, fields), message) EXCEPT
     !.isImmediate = s.isImmediate,
     !.reqmessage = s.reqmessage,
     !.isStrict = s.isStrict,
     !.isPathed = s.isPathed,
     !.refines = @ \o s.refines,
     !.checks = @ \o s.checks]

\* number(), string(), boolean(), object({a: number(), b: string()})
ExtendHeaps ==
  { <<PawNumberParser(NoMsg), PawStringParser(NoMsg), PawBooleanParser(NoMsg),
      PawObjectParser(<<<<"a", 1>>, <<"b", 2>>>>, NoMsg)>> }

\* the field maps handed to extend: none, a new key, a key of the owner with
\* another schema, both
ExtendFields ==
  { <<>>, <<<<"c", 3>>>>, <<<<"a", 2>>>>, <<<<"c", 3>>, <<"b", 1>>>> }

ExtendMessages == {NoMsg, "e"}

ExtendInputs ==
  { Undefined, Num(1), Obj(<<>>),
    Obj(<<<<"a", Num(1)>>, <<"b", Str("ab")>>>>),
    Obj(<<<<"a", Str("ab")>>, <<"b", Str("ab")>>>>),
    Obj(<<<<"a", Num(1)>>, <<"b", Num(1)>>, <<"c", Bool(TRUE)>>>>),
    Obj(<<<<"a", Str("ab")>>, <<"b", Str("ab")>>, <<"c", Bool(TRUE)>>>>),
    Obj(<<<<"a", Num(1)>>, <<"b", Str("ab")>>, <<"c", Bool(TRUE)>>>>) }

InitExtend ==
  /\ heap \in ExtendHeaps
  /\ last = NoCall

\* schema.required(message): this.reqmessage = message; return this
required(id, message) ==
  /\ Has(heap[id], "reqmessage")
  /\ heap' = [heap EXCEPT ![id].reqmessage = message]
  /\ last' = NoCall

\* schema.extend(fields, message): the clone is a new schema, the receiver is
\* not assigned to; what the caller holds after the call is recorded
extend(id, fields, message) ==
  /\ heap[id].kind = "object"
  /\ heap' = Append(heap, Extend(heap[id], fields, message))
  /\ last' = [op |-> "extend", id |-> id, fields |-> fields, out |-> Len(heap) + 1,
              before |-> heap]

ConfigureExtend ==
  /\ last = NoCall
  /\ ConfigCount(heap) < MaxConfig
  /\ \E id \in Ids :
       \/ immediate(id)
       \/ strict(id)
       \/ pathed(id)
       \/ required(id, "r")
       \/ \E fn \in {"default", "rejectAt"} : refine(id, fn)
       \/ \E fn \in {"truthy", "failAt"} : check(id, fn)

DoExtend ==
  /\ last = NoCall
  /\ \E id \in Ids : \E fields \in ExtendFields : \E message \in ExtendMessages :
       extend(id, fields, message)

CallExtend ==
  /\ last.op \in {"none", "extend"}
  /\ \E id \in Roots(heap) : \E val \in ExtendInputs : safeParse(id, val)

NextExtend == ConfigureExtend \/ DoExtend \/ CallExtend

SpecExtend == InitExtend /\ [][NextExtend]_vars

(***************************************************************************)
(* Properties of one extend call                                           *)
(***************************************************************************)
Extended == last.op = "extend"

\* the receiver S of the extend call as it was before the call, and the
\* schema E the call returned
Owner == last.before[last.id]

Clone == heap[last.out]

\* C16: E = S.extend(F) is a new object schema whose field map has every
\* field of S and every field of F, with F's schema on a key both have; the
\* call changes nothing in S: its field map, flags, refines and checks are as
\* before, and so are the results of S.safeParse.
C16_ExtendOverlay ==
  Extended =>
    /\ last.out \notin 1..Len(last.before)
    /\ Clone.kind = "object"
    /\ DeclaredKeys(Clone) = DeclaredKeys(Owner) \cup {f[1] : f \in Range(last.fields)}
    /\ Len(Clone.fields) = Cardinality(DeclaredKeys(Clone))
    /\ \A k \in DeclaredKeys(Clone) :
         FieldOf(Clone.fields, k) = IF HasField(last.fields, k) THEN FieldOf(last.fields, k)
                                    ELSE FieldOf(Owner.fields, k)
    /\ SubSeq(heap, 1, Len(last.before)) = last.before
    /\ \A v \in ExtendInputs :
         SafeParse(heap, last.id, v) = SafeParse(last.before, last.id, v)

\* an extend whose argument has a key of the owner with another schema and a
\* new key
C16_Witness ==
  /\ Extended
  /\ \E k \in DeclaredKeys(Owner) :
       /\ HasField(last.fields, k)
       /\ FieldOf(last.fields, k) # FieldOf(Owner.fields, k)
       /\ FieldOf(Clone.fields, k) = FieldOf(last.fields, k)
  /\ \E k \in DeclaredKeys(Clone) : k \notin DeclaredKeys(Owner)
  /\ heap[last.id] = Owner

\* the calls of the user functions of stage ev on schema id in a run, without
\* the schema they ran on
StageCalls(run, ev, id) ==
  LET es == SelectSeq(run.trace, LAMBDA e : e.ev = ev /\ e.id = id)
  IN [i \in 1..Len(es) |-> [k |-> es[i].k, arg |-> es[i].arg, ret |-> es[i].ret]]

\* the structural stage of schema id succeeded in a run
Structured(run, id) == \E i \in 1..Len(run.trace) :
  run.trace[i].ev = "parse" /\ run.trace[i].id = id /\ run.trace[i].ok

\* the refines of E run on v as those of S do, and where both S and E accept
\* the structure of v so do the checks
RunsAlike(v) ==
  LET owner == SafeParse(heap, last.id, v)
      clone == SafeParse(heap, last.out, v)
  IN /\ StageCalls(clone, "refine", last.out) = StageCalls(owner, "refine", last.id)
     /\ (Structured(owner, last.id) /\ Structured(clone, last.out)) =>
          LET oc == StageCalls(owner, "check", last.id)
              cc == StageCalls(clone, "check", last.out)
          IN /\ Len(cc) = Len(oc)
             /\ \A i \in 1..Len(cc) : cc[i].k = oc[i].k /\ cc[i].ret = oc[i].ret

\* C17: E = S.extend(F) has the immediate, strict and pathed flags and the
\* required message S has at the call, and S's refine and check functions in
\* the same order, so that they run on E.safeParse as they do on S.
C17_ExtendInheritance ==
  Extended =>
    /\ Clone.isImmediate = Owner.isImmediate
    /\ Clone.isStrict = Owner.isStrict
    /\ Clone.isPathed = Owner.isPathed
    /\ Clone.reqmessage = Owner.reqmessage
    /\ Clone.refines = Owner.refines
    /\ Clone.checks = Owner.checks
    /\ \A v \in ExtendInputs : RunsAlike(v)

\* an owner with a flag set, a required message and a user function, extended
C17_Witness ==
  /\ Extended
  /\ Owner.isImmediate \/ Owner.isStrict \/ Owner.isPathed
  /\ Owner.reqmessage = "r" \/ Len(Owner.checks) > 0
  /\ Len(Owner.refines) > 0
  /\ Clone.refines = Owner.refines
  /\ Clone.fields # Owner.fields

(***************************************************************************)
(* The constraint model: each class that has required() is built with a    *)
(* constructor message, configured with required(), min(), max(), int()    *)
(* and a defaulting refine, then parsed once.                              *)
(***************************************************************************)
ConstraintHeaps ==
  { <<PawStringParser("m")>>,
    <<PawNumberParser("m")>>,
    <<PawBooleanParser("m")>>,
    <<PawNumberParser(NoMsg), PawArrayParser(1, "m")>>,
    <<PawNumberParser(NoMsg), PawObjectParser(<<<<"a", 1>>>>, "m")>>,
    <<PawLiteralParser(<<Num(2), Str("ab")>>, "m")>>,
    <<PawBooleanParser(NoMsg), PawNumberParser(NoMsg), PawUnionParser(<<1, 2>>, "m")>> }

\* the lengths and values handed to min() and max()
ConstraintValues == {1, 3}

ConstraintInputs ==
  { Undefined, Null, Num(1), Num(2), Num(4), Half(3), Half(5),
    Str(""), Str("ab"), Str("abcd"), Bool(TRUE),
    Arr(<<>>), Arr(<<Num(1), Num(1)>>), Arr(<<Str("ab"), Num(1)>>),
    Arr(<<Num(1), Num(1), Num(1), Num(1)>>),
    Obj(<<>>), Obj(<<<<"a", Num(1)>>>>) }

InitConstraints ==
  /\ heap \in ConstraintHeaps
  /\ last = NoCall

\* schema.min(value, message): this.mincfg = { value, message }; return this
min(id, value, message) ==
  /\ Has(heap[id], "mincfg")
  /\ heap' = [heap EXCEPT ![id].mincfg = Cfg(value, message)]
  /\ last' = NoCall

\* schema.max(value, message): this.maxcfg = { value, message }; return this
max(id, value, message) ==
  /\ Has(heap[id], "maxcfg")
  /\ heap' = [heap EXCEPT ![id].maxcfg = Cfg(value, message)]
  /\ last' = NoCall

\* schema.int(message): this.intcfg = { value: true, message }; return this
int(id, message) ==
  /\ Has(heap[id], "intcfg")
  /\ heap' = [heap EXCEPT ![id].intcfg = [value |-> TRUE, message |-> message]]
  /\ last' = NoCall

ConfigureConstraints ==
  /\ last = NoCall
  /\ ConfigCount(heap) < MaxConfig
  /\ \E id \in Ids :
       \/ required(id, "r")
       \/ \E value \in ConstraintValues : min(id, value, "min")
       \/ \E value \in ConstraintValues : max(id, value, "max")
       \/ int(id, "int")
       \/ refine(id, "default")

CallConstraints ==
  /\ last = NoCall
  /\ \E id \in Roots(heap) : \E val \in ConstraintInputs : safeParse(id, val)

NextConstraints == ConfigureConstraints \/ CallConstraints

SpecConstraints == InitConstraints /\ [][NextConstraints]_vars

(***************************************************************************)
(* Properties of the structural validation of one observed call            *)
(***************************************************************************)
\* the called schema got past its refines; Working is the value they left
Validating ==
  /\ last.op = "safeParse"
  /\ Len(EventsOf("parse", last.id)) = 1

Working == EventsOf("parse", last.id)[1].arg

\* the kind of the issue a class gives for a value that is not of its type
TypeIssueOf(kind) ==
  CASE kind = "array" -> "array-type"
    [] kind = "object" -> "object-type"
    [] OTHER -> kind

\* a value that is not null or undefined and fails the type test of schema s:
\* typeof for string, number, boolean and object, Array.isArray for array,
\* membership for literal, every alternative's verdict for union
WrongType(s, v) ==
  /\ ~IsNullish(v)
  /\ CASE s.kind \in {"string", "number", "boolean", "object"} -> TypeOf(v) # s.kind
        [] s.kind = "array" -> v.t # "array"
        [] s.kind = "literal" -> v \notin Range(s.values)
        [] OTHER -> \A j \in 1..Len(s.schemas) : ~SafeParse(heap, s.schemas[j], v).res.ok

\* the called schema was built with message m and given required(r)
BothMessages ==
  /\ Validating
  /\ Has(heap[last.id], "reqmessage")
  /\ heap[last.id].message = "m"
  /\ heap[last.id].reqmessage = "r"

Violations(s, v) ==
  CASE s.kind = "string" ->
         (IF s.mincfg.set /\ Len(v.s) < s.mincfg.value THEN <<"min">> ELSE <<>>)
           \o (IF s.maxcfg.set /\ Len(v.s) > s.maxcfg.value THEN <<"max">> ELSE <<>>)
    [] s.kind = "number" ->
         (IF s.intcfg.value /\ v.n % 2 # 0 THEN <<"int">> ELSE <<>>)
           \o (IF s.mincfg.set /\ v.n < 2 * s.mincfg.value THEN <<"min">> ELSE <<>>)
           \o (IF s.maxcfg.set /\ v.n > 2 * s.maxcfg.value THEN <<"max">> ELSE <<>>)
    [] OTHER ->
         (IF s.maxcfg.set /\ Len(v.a) > s.maxcfg.value THEN <<"max">> ELSE <<>>)
           \o (IF s.mincfg.set /\ Len(v.a) < s.mincfg.value THEN <<"min">> ELSE <<>>)

\* the called schema is a string, number or array and the working value is of
\* its type
Constrained ==
  /\ Validating
  /\ heap[last.id].kind \in {"string", "number", "array"}
  /\ Working.t = heap[last.id].kind

\* C19: constraints are tested in a fixed order and the first violated one
\* decides the issue: String min then max; Number int, min, max; Array max
\* then min, and only if both pass are the elements validated, a length
\* violation giving an ArrayType issue and never an ArraySchema issue.  A
\* constraint that is not configured is not tested, and one issue is
\* reported.
C19_ConstraintOrder ==
  Constrained =>
    LET s == heap[last.id]
        violated == Violations(s, Working)
        items == EventsOf("item", last.id)
    IN /\ Len(violated) > 0 =>
            /\ ~last.res.ok
            /\ last.res.error.kind = TypeIssueOf(s.kind)
            /\ last.res.error.message = violated[1]
            /\ last.res.error.issues = <<>>
            /\ Len(items) = 0
       /\ Len(violated) = 0 =>
            /\ s.kind \in {"string", "number"} => last.res = PawOk(Working)
            /\ s.kind = "array" =>
                 /\ Len(items) = Len(Working.a)
                 /\ last.res.ok \/ last.res.error.kind = "array-schema"

\* an array with max() and min() both violated by an input whose elements are
\* not all valid: the issue is the ArrayType issue of max, no element parsed
C19_Witness ==
  /\ Constrained
  /\ heap[last.id].kind = "array"
  /\ Violations(heap[last.id], Working) = <<"max", "min">>
  /\ \E i \in 1..Len(Working.a) : Working.a[i].t # "number"
  /\ ~last.res.ok
  /\ last.res.error.kind = "array-type"
  /\ last.res.error.message = "max"
  /\ Len(EventsOf("item", last.id)) = 0

(***************************************************************************)
(* Properties of the output object                                         *)
(***************************************************************************)
\* the called schema is an object that is not strict and has no refine, and
\* it accepted the input
NonStrictOk ==
  /\ last.op = "safeParse"
  /\ heap[last.id].kind = "object"
  /\ ~heap[last.id].isStrict
  /\ heap[last.id].refines = <<>>
  /\ last.res.ok

\* C20: a successful safeParse(v) of an object schema without strict() and
\* without refines returns Ok of the very object v, not a copy, with the
\* fields v had when it was handed in.  Holds of the called schema and of
\* every such object schema below it.
C20_NonStrictZeroCopy ==
  /\ NonStrictOk =>
       /\ last.res.value = last.input
       /\ last.res.value.ref = "caller"
  /\ last.op = "safeParse" =>
       \A i \in 1..Len(last.trace) :
         LET e == last.trace[i]
         IN (/\ e.ev = "parse"
             /\ heap[e.id].kind = "object"
             /\ ~heap[e.id].isStrict
             /\ e.ok) => e.ret.value = e.arg

\* a non-strict object accepted an input object that has an undeclared key
\* and returned that object
C20_Witness ==
  /\ NonStrictOk
  /\ last.input.t = "object"
  /\ "z" \in Range(OwnKeys(last.input))
  /\ last.res.value = last.input
  /\ last.res.value.ref = "caller"

(***************************************************************************)
(* The repeated call: the schemas of the nested model, also wrapped in     *)
(* Optional, Nullable and Transform, parsed twice with the same input.     *)
(***************************************************************************)
\* the schemas the factories made, which come before the wrappers
BaseLen(h) ==
  Cardinality({j \in 1..Len(h) : h[j].kind \notin {"transform", "optional", "nullable"}})

TwiceInputs(h) == InputsFor(SubSeq(h, 1, BaseLen(h))) \cup {Undefined, Null}

ConfigureWrapped ==
  /\ last = NoCall
  /\ ConfigCount(heap) < MaxConfig
  /\ \E id \in Roots(heap) :
       \/ optional(id)
       \/ nullable(id)
       \/ transform(id, "toString")

CallTwice ==
  /\ last = NoCall
  /\ \E id \in Roots(heap) : \E val \in TwiceInputs(heap) : safeParse(id, val)

\* the same schema.safeParse(val) once more, no configuration call in between
again ==
  /\ last.op = "safeParse"
  /\ last' = [op |-> "again", first |-> last,
              second |-> Observed(last.id, last.input,
                                  SafeParse(heap, last.id, last.input))]
  /\ UNCHANGED heap

NextTwice == ConfigureNested \/ ConfigureWrapped \/ CallTwice \/ again

SpecTwice == InitNested /\ [][NextTwice]_vars

RECURSIVE NonEmptyChildren(_)
NonEmptyChildren(issue) ==
  /\ issue.kind \in {"array-schema", "object-schema"} => Len(issue.issues) > 0
  /\ \A j \in 1..Len(issue.issues) : NonEmptyChildren(issue.issues[j].issue)

\* C22: every ArraySchema and ObjectSchema issue in a safeParse result, at
\* the top or nested at any depth, has at least one child entry.  Holds of
\* the result of the call and of every result a child or user function
\* returned during it.
C22_NonEmptyChildren ==
  last.op = "safeParse" =>
    /\ ~last.res.ok => NonEmptyChildren(last.res.error)
    /\ \A i \in 1..Len(last.trace) :
         ~last.trace[i].ok => NonEmptyChildren(last.trace[i].ret.error)

\* a retained object returned an ObjectSchema issue with an ArraySchema
\* issue below it
C22_Witness ==
  /\ last.op = "safeParse"
  /\ ~last.res.ok
  /\ last.res.error.kind = "object-schema"
  /\ ~heap[last.id].isImmediate
  /\ \E j \in 1..Len(last.res.error.issues) :
       /\ last.res.error.issues[j].issue.kind = "array-schema"
       /\ Len(last.res.error.issues[j].issue.issues) > 0

\* a retained array with no element returned Ok
C22_EmptyArrayWitness ==
  /\ last.op = "safeParse"
  /\ heap[last.id].kind = "array"
  /\ ~heap[last.id].isImmediate
  /\ last.input.t = "array"
  /\ Len(last.input.a) = 0
  /\ last.res.ok

(***************************************************************************)
(* The round trip: the schemas of the constraint model and unknown() and   *)
(* any(), with constraints, refines and checks, parsed once.               *)
(***************************************************************************)
InitRoundTrip ==
  /\ heap \in ConstraintHeaps \cup {<<PawUnknownParser>>, <<PawAnyParser>>}
  /\ last = NoCall

ConfigureRoundTrip ==
  /\ last = NoCall
  /\ ConfigCount(heap) < MaxConfig
  /\ \E id \in Ids :
       \/ refine(id, "double")
       \/ \E fn \in PipelineCheckFns : check(id, fn)

NextRoundTrip == ConfigureConstraints \/ ConfigureRoundTrip \/ CallConstraints

SpecRoundTrip == InitRoundTrip /\ [][NextRoundTrip]_vars

\* the called schema is one of the scalar classes, hence not a Transform
ScalarCase ==
  /\ last.op = "safeParse"
  /\ heap[last.id].kind \in {"string", "number", "boolean", "literal", "unknown", "any"}

\* x is of the type of s, within its constraints, and passes its checks
Satisfies(s, id, x) ==
  /\ Validate(s, x).ok
  /\ RunChecks(s, id, x, x).res.ok

\* C23 as stated: for a scalar schema with no transform and an x that
\* satisfies its type and constraints, safeParse(x) returns Ok(x), the
\* identical value.  Fails for a schema with a refine that returns another
\* value: number().refine(double).safeParse(1) is Ok(2).
C23_RoundTrip ==
  (ScalarCase /\ Satisfies(heap[last.id], last.id, last.input)) =>
    last.res = PawOk(last.input)

\* C23 amended: for a scalar schema with no transform whose refine functions
\* return x as it is, and an x that satisfies its type, constraints and
\* checks, safeParse(x) returns Ok(x), the identical value.
C23_RoundTripUnrefined ==
  (/\ ScalarCase
   /\ Satisfies(heap[last.id], last.id, last.input)
   /\ RunRefinements(heap[last.id], last.id, last.input).res = PawOk(last.input)) =>
    last.res = PawOk(last.input)

\* a number within its min, with a refine that leaves it alone and a check
\* it passes, came back as it was
C23_Witness ==
  /\ ScalarCase
  /\ heap[last.id].kind = "number"
  /\ heap[last.id].mincfg.set
  /\ Len(heap[last.id].refines) = 1
  /\ Len(heap[last.id].checks) = 1
  /\ last.input.t = "number"
  /\ Satisfies(heap[last.id], last.id, last.input)
  /\ last.res = PawOk(last.input)

(***************************************************************************)
(* The builder model: the configuration methods of every class, each with  *)
(* what it does to the heap and what it returns to the caller.             *)
(***************************************************************************)
\* the methods that assign to a field of the receiver or push on one of its lists
Mutators ==
  {"min", "max", "int", "immediate", "strict", "pathed", "required", "refine", "check"}

\* the methods that end with return new ...
Makers == {"optional", "nullable", "transform", "extend"}

\* the class of s declares method m
Offers(s, m) ==
  CASE m = "min" -> Has(s, "mincfg")
    [] m = "max" -> Has(s, "maxcfg")
    [] m = "int" -> Has(s, "intcfg")
    [] m = "immediate" -> s.kind \in {"array", "object"}
    [] m \in {"strict", "pathed", "extend"} -> s.kind = "object"
    [] m = "required" -> Has(s, "reqmessage")
    [] m = "refine" -> s.kind \in Refinable
    [] m = "check" -> s.kind \in Checkable
    [] m = "optional" -> s.kind \in MaybeOptional
    [] m = "nullable" -> s.kind \in MaybeNullable
    [] m = "transform" -> s.kind \in Transformable
    [] OTHER -> FALSE

\* the receiver after the assignment or push of a mutator
Configured(s, m) ==
  CASE m = "min" -> [s EXCEPT !.mincfg = Cfg(1, "min")]
    [] m = "max" -> [s EXCEPT !.maxcfg = Cfg(3, "max")]
    [] m = "int" -> [s EXCEPT !.intcfg = [value |-> TRUE, message |-> "int"]]
    [] m = "immediate" -> [s EXCEPT !.isImmediate = TRUE]
    [] m = "strict" -> [s EXCEPT !.isStrict = TRUE]
    [] m = "pathed" -> [s EXCEPT !.isPathed = TRUE]
    [] m = "required" -> [s EXCEPT !.reqmessage = "r"]
    [] m = "refine" -> [s EXCEPT !.refines = Append(@, "default")]
    [] m = "check" -> [s EXCEPT !.checks = Append(@, "failAt")]

\* the instance a maker constructs around or from receiver id
Made(h, m, id) ==
  CASE m = "optional" -> PawOptionalParser(id)
    [] m = "nullable" -> PawNullableParser(id)
    [] m = "transform" ->
         PawTransformParser("toString", id,
                            IF h[id].kind = "transform" THEN h[id].src ELSE h[id].kind)
    [] m = "extend" -> Extend(h[id], <<<<"b", 1>>>>, NoMsg)

\* builder methods that never write to the receiver and return a configured
\* copy of it: the copy-on-configure C24 rules out for the mutators
BuiltFresh(h, m, id) ==
  [heap |-> Append(h, IF m \in Mutators THEN Configured(h[id], m) ELSE Made(h, m, id)),
   ret |-> Len(h) + 1]

\* builder methods where the object schemas push on one refine list and one
\* check list they all hold: the sharing between S and E that C30 rules out
BuiltShared(h, m, id) ==
  IF m \in Mutators
  THEN [heap |-> [j \in 1..Len(h) |->
                   IF j = id \/ (m \in {"refine", "check"} /\ h[id].kind = "object"
                                  /\ h[j].kind = "object")
                   THEN Configured(h[j], m) ELSE h[j]],
        ret |-> id]
  ELSE [heap |-> Append(h, Made(h, m, id)), ret |-> Len(h) + 1]

\* method m called on schema id: the heap it leaves and the schema it returns
Built(h, m, id) ==
  IF m \in Mutators
  THEN [heap |-> [h EXCEPT ![id] = Configured(h[id], m)], ret |-> id]
  ELSE [heap |-> Append(h, Made(h, m, id)), ret |-> Len(h) + 1]

\* no extend call was made yet
NoExt == [id |-> 0, out |-> 0, at |-> <<>>, touched |-> {}]

InitBuilder ==
  /\ heap \in ExtendHeaps \cup ConstraintHeaps \cup {<<PawUnknownParser>>, <<PawAnyParser>>}
  /\ last = NoCall

\* schema.m(...): what the caller passed and got back is recorded, and with
\* it the last extend call: its receiver id, the clone out, the heap at its
\* return and the schemas configured since
build(m, id) ==
  /\ last.op \in {"none", "build"}
  /\ last.op = "build" => last.n < MaxBuilds
  /\ Offers(heap[id], m)
  /\ heap' = Built(heap, m, id).heap
  /\ last' = [op |-> "build", method |-> m, id |-> id, ret |-> Built(heap, m, id).ret,
              before |-> heap,
              n |-> IF last.op = "build" THEN last.n + 1 ELSE 1,
              ext |-> IF m = "extend"
                      THEN [id |-> id, out |-> Built(heap, m, id).ret,
                            at |-> Built(heap, m, id).heap, touched |-> {}]
                      ELSE IF last.op = "build"
                      THEN [last.ext EXCEPT !.touched = @ \cup {id}]
                      ELSE NoExt]

NextBuilder == \E m \in Mutators \cup Makers : \E id \in Ids : build(m, id)

SpecBuilder == InitBuilder /\ [][NextBuilder]_vars

Building == last.op = "build"

\* C24 as stated: min, max, int, immediate, strict, pathed, required,
\* optional, nullable, refine, check and transform each return the receiver
\* itself and make no instance, and extend alone returns a new instance.
\* Fails for optional, nullable and transform, which return a new wrapper.
C24_FluentIdentity ==
  Building =>
    IF last.method = "extend" THEN last.ret \notin 1..Len(last.before)
    ELSE last.ret = last.id /\ Len(heap) = Len(last.before)

\* the receiver holds what mutator m sets
Holds(s, m) ==
  CASE m = "min" -> s.mincfg = Cfg(1, "min")
    [] m = "max" -> s.maxcfg = Cfg(3, "max")
    [] m = "int" -> s.intcfg.value
    [] m = "immediate" -> s.isImmediate
    [] m = "strict" -> s.isStrict
    [] m = "pathed" -> s.isPathed
    [] m = "required" -> s.reqmessage = "r"
    [] m = "refine" -> Len(s.refines) > 0 /\ s.refines[Len(s.refines)] = "default"
    [] m = "check" -> Len(s.checks) > 0 /\ s.checks[Len(s.checks)] = "failAt"

\* C24 amended: min, max, int, immediate, strict, pathed, required, refine
\* and check write to the receiver and return the receiver itself, leaving
\* every other schema alone; optional, nullable, transform and extend return
\* a new instance, a wrapper around the receiver or a clone of it, and leave
\* the receiver as it was.
C24_FluentMutators ==
  Building =>
    /\ last.method \in Mutators =>
         /\ last.ret = last.id
         /\ Len(heap) = Len(last.before)
         /\ Holds(heap[last.id], last.method)
         /\ \A j \in 1..Len(heap) : j # last.id => heap[j] = last.before[j]
    /\ last.method \in Makers =>
         /\ last.ret = Len(last.before) + 1
         /\ Len(heap) = Len(last.before) + 1
         /\ SubSeq(heap, 1, Len(last.before)) = last.before
         /\ heap[last.ret].kind = (IF last.method = "extend" THEN "object" ELSE last.method)
         /\ last.method # "extend" => Children(heap[last.ret]) = {last.id}

\* string().min(1).max(3).nullable(): the two mutators wrote to the string
\* and nullable() returned a wrapper around it
C24_Witness ==
  /\ Building
  /\ last.n = 3
  /\ last.method = "nullable"
  /\ heap[last.id].kind = "string"
  /\ heap[last.id].mincfg.set
  /\ heap[last.id].maxcfg.set
  /\ heap[last.ret].kind = "nullable"
  /\ heap[last.ret].parser = last.id

(***************************************************************************)
(* Properties of the output of arrays and objects                          *)
(***************************************************************************)
\* C25: when an object schema returns Ok, the value under each declared
\* field of the output is the Ok value the field's schema gives for the
\* input's value of that field, for strict and non-strict objects alike and
\* also when the field's schema has a refine.  Fails for a non-strict object
\* whose field schema has a refine that returns another value.
C25_DeclaredFieldsValidated ==
  (/\ last.op = "safeParse"
   /\ heap[last.id].kind = "object"
   /\ last.res.ok) =>
    \A j \in 1..Len(heap[last.id].fields) :
      LET field == heap[last.id].fields[j]
      IN Get(last.res.value, field[1])
           = SafeParse(heap, field[2], Get(RootArg, field[1])).res.value

\* C26: when an array schema returns Ok(out), out is as long as the input
\* array after the refines and out[i] is the Ok value the element schema
\* gives for the i-th element, also when the element schema has a refine.
\* Fails for an element schema with a refine that returns another value.
C26_ArrayOutputValidated ==
  (/\ last.op = "safeParse"
   /\ heap[last.id].kind = "array"
   /\ last.res.ok) =>
    /\ Len(last.res.value.a) = Len(RootArg.a)
    /\ \A i \in 1..Len(RootArg.a) :
         last.res.value.a[i] = SafeParse(heap, heap[last.id].unit, RootArg.a[i]).res.value

(***************************************************************************)
(* Properties of one call against the call of a schema that differs in one *)
(* flag                                                                    *)
(***************************************************************************)
\* the result of the observed call had the called object not been pathed
Unpathed == SafeParse([heap EXCEPT ![last.id].isPathed = FALSE], last.id, last.input).res

PathedCase ==
  /\ last.op = "safeParse"
  /\ heap[last.id].kind = "object"
  /\ heap[last.id].isPathed

\* C27: the result of a pathed object differs from the result of the same
\* object without pathed() only in the path fields of the issues: an Ok
\* result is the same, and an Err result has the same issue tree, with the
\* kind, message and src of every issue and the keys, order and number of
\* the child entries of every aggregate issue, once the paths are removed.
C27_PathTaggingAugments ==
  PathedCase =>
    IF last.res.ok THEN Unpathed = last.res
    ELSE /\ ~Unpathed.ok
         /\ StripPath(Unpathed.error) = StripPath(last.res.error)

\* a pathed object returned a tree two levels deep that differs from the
\* tree of the unpathed object
C27_Witness ==
  /\ PathedCase
  /\ ~last.res.ok
  /\ last.res.error # Unpathed.error
  /\ \E j \in 1..Len(last.res.error.issues) :
       Len(last.res.error.issues[j].issue.issues) > 0

\* the nested model with length and value bounds on its schemas
ConfigureLengths ==
  /\ last = NoCall
  /\ ConfigCount(heap) < MaxConfig
  /\ \E id \in Ids :
       \/ min(id, 1, "min")
       \/ max(id, 1, "max")

NextModes == ConfigureNested \/ ConfigureLengths \/ CallNested

SpecModes == InitNested /\ [][NextModes]_vars

\* the result of the observed call had the called array or object been in
\* the other mode
Flipped == SafeParse([heap EXCEPT ![last.id].isImmediate = ~@], last.id, last.input).res

ImmediateRes == IF heap[last.id].isImmediate THEN last.res ELSE Flipped

RetainedRes == IF heap[last.id].isImmediate THEN Flipped ELSE last.res

ModeCase == last.op = "safeParse" /\ IsAggregate

\* C29: two arrays or objects that differ in the immediate flag only accept
\* the same inputs: on every input both return Ok with the same value or
\* both return Err; an issue that is not an ArraySchema or ObjectSchema
\* issue (refine, Required, type, length, check) is the same in both; and of
\* an aggregate issue the one child entry of the immediate result is the
\* first child entry of the retained result, index or field and nested issue.
C29_ModesAgree ==
  ModeCase =>
    /\ ImmediateRes.ok = RetainedRes.ok
    /\ ImmediateRes.ok => ImmediateRes = RetainedRes
    /\ ~ImmediateRes.ok =>
         /\ ImmediateRes.error.kind = RetainedRes.error.kind
         /\ ImmediateRes.error.kind \notin {"array-schema", "object-schema"} =>
              ImmediateRes.error = RetainedRes.error
         /\ ImmediateRes.error.kind \in {"array-schema", "object-schema"} =>
              /\ Len(ImmediateRes.error.issues) = 1
              /\ Len(RetainedRes.error.issues) >= 1
              /\ ImmediateRes.error.issues[1] = RetainedRes.error.issues[1]

\* an input with two invalid children: the retained result has both, the
\* immediate result the first, itself an aggregate issue
C29_Witness ==
  /\ ModeCase
  /\ ~ImmediateRes.ok
  /\ Len(ImmediateRes.error.issues) = 1
  /\ Len(RetainedRes.error.issues) = 2
  /\ ImmediateRes.error.issues[1] = RetainedRes.error.issues[1]
  /\ ImmediateRes.error # RetainedRes.error

\* both modes returned the same issue for an array that is too long, whose
\* elements neither of them visited
C29_LengthWitness ==
  /\ ModeCase
  /\ IsArr
  /\ heap[last.id].maxcfg.set
  /\ ~ImmediateRes.ok
  /\ ImmediateRes.error.kind = "array-type"
  /\ ImmediateRes.error.message = "max"
  /\ ImmediateRes.error = RetainedRes.error

\* both modes returned the same issue of a check of the called schema
C29_CheckWitness ==
  /\ ModeCase
  /\ ~ImmediateRes.ok
  /\ ImmediateRes.error.kind = "check"
  /\ ImmediateRes.error = RetainedRes.error

(***************************************************************************)
(* Properties of the checks of a union                                     *)
(***************************************************************************)
\* the called schema is a union that got past its refines
CheckedUnionCase ==
  /\ last.op = "safeParse"
  /\ heap[last.id].kind = "union"
  /\ Len(EventsOf("parse", last.id)) = 1

\* the checks of the called union on the output of alternative j
ChecksOn(j) == RunChecks(heap[last.id], last.id, UnionArg, Alternative(j).value)

\* C28: the checks of a union run only on the output of the first
\* alternative that accepts the value; when one of them fails the union
\* returns that Check issue, src "union", and tries no later alternative,
\* even one that accepts the value with an output that passes the checks;
\* when they pass the union returns that alternative's Ok result.
C28_UnionChecksNoBacktrack ==
  CheckedUnionCase =>
    LET items == EventsOf("item", last.id)
        checks == EventsOf("check", last.id)
    IN /\ Accepting = {} => Len(checks) = 0 /\ ~last.res.ok
       /\ Accepting # {} =>
            /\ Len(items) = FirstAccepting
            /\ \A c \in 1..Len(checks) :
                 checks[c].arg = Alternative(FirstAccepting).value
            /\ ChecksOn(FirstAccepting).res.ok =>
                 /\ last.res = Alternative(FirstAccepting)
                 /\ Len(checks) = Len(heap[last.id].checks)
            /\ ~ChecksOn(FirstAccepting).res.ok =>
                 /\ last.res = ChecksOn(FirstAccepting).res
                 /\ last.res.error.kind = "check"
                 /\ last.res.error.src = "union"

\* the check failed on the output of the first alternative and the union
\* returned its issue, while the second alternative accepts the value with
\* an output that passes the check
C28_Witness ==
  /\ CheckedUnionCase
  /\ Cardinality(Accepting) = 2
  /\ FirstAccepting = 1
  /\ ~ChecksOn(1).res.ok
  /\ ChecksOn(2).res.ok
  /\ ~last.res.ok
  /\ last.res.error.kind = "check"
  /\ Len(EventsOf("item", last.id)) = 1

(***************************************************************************)
(* Properties of the schemas of an extend call under later configuration   *)
(***************************************************************************)
\* an extend call was made and the builder calls made since are recorded
AfterExtend == Building /\ last.ext.out # 0

\* schema id answers every input as it did when extend returned
AsAtExtend(id) ==
  \A v \in ExtendInputs : SafeParse(heap, id, v) = SafeParse(last.ext.at, id, v)

\* C30: after E = S.extend(F), E is another schema than S, builder calls
\* made on S alone (refine, check, immediate, strict, pathed, required and
\* the makers) leave the result of E.safeParse as it was for every input,
\* and builder calls made on E alone leave S.safeParse as it was: E and S
\* share no refine list and no check list.
C30_ExtendIndependence ==
  AfterExtend =>
    /\ last.ext.out # last.ext.id
    /\ last.ext.touched \subseteq {last.ext.id} =>
         /\ heap[last.ext.out] = last.ext.at[last.ext.out]
         /\ AsAtExtend(last.ext.out)
    /\ last.ext.touched \subseteq {last.ext.out} =>
         /\ heap[last.ext.id] = last.ext.at[last.ext.id]
         /\ AsAtExtend(last.ext.id)

\* S was extended and then given a refine and a check that change what
\* S.safeParse returns, and E answers as before
C30_Witness ==
  /\ AfterExtend
  /\ last.n = 3
  /\ last.ext.touched = {last.ext.id}
  /\ Len(heap[last.ext.id].refines) = 1
  /\ Len(heap[last.ext.id].checks) = 1
  /\ heap[last.ext.out].refines = <<>>
  /\ heap[last.ext.out].checks = <<>>
  /\ ~AsAtExtend(last.ext.id)
  /\ AsAtExtend(last.ext.out)
  /\ \E v \in ExtendInputs : SafeParse(heap, last.ext.out, v).res.ok

\* E was given a refine and a flag after the extend, and S answers as before
C30_CloneWitness ==
  /\ AfterExtend
  /\ last.n = 3
  /\ last.ext.touched = {last.ext.out}
  /\ Len(heap[last.ext.out].refines) = 1
  /\ heap[last.ext.out].isStrict
  /\ ~AsAtExtend(last.ext.out)
  /\ AsAtExtend(last.ext.id)

====
